---- MODULE Spec2Model ----
(***************************************************************************)
(* The live-preview decoration engine of ginko-blocks: the block scanner   *)
(* (parseContent), the cursor tracker (checkCursorInRegion), the widget    *)
(* identity cache (collectExistingWidgets, getOrCreateWidget) and the      *)
(* decoration builder (updatePreviews), for the `::tabs` extension.        *)
(*                                                                         *)
(* Text is a sequence of UTF-16 code units; offsets are 0-based as in the  *)
(* source, so the character at offset p of text s is s[p + 1].             *)
(***************************************************************************)
EXTENDS Integers, Sequences, FiniteSets, TLC

VARIABLES
  docText,      \* transaction.state.doc.toString()
  selection,    \* transaction.state.selection.ranges: sequence of [from, to]
  livePreview,  \* transaction.state.field(editorLivePreviewField)
  editState,    \* the editStateField: set of ids mapped to true
  decos,        \* the value of previewField: sequence of [from, to, widget]
  nextInst,     \* number of widget objects constructed so far
  passRan,      \* the last transaction qualified for an update
  pass,         \* history: the last decoration pass (its document, selection,
                \* output and what it did per start tag found)
  prevPass,     \* history: the decoration pass before the last one
  owed,         \* history: id -> instance last rendered for a fingerprint
                \* that has been among the regions of every pass since
  txCount,      \* number of transactions dispatched
  editCount,    \* number of transactions that changed the document
  cq,           \* inputs and result of one checkCursorInRegion call
  pq,           \* inputs and result of one parseBlockProperties call
  tq,           \* input and result of one TabWidget construction
  fault,        \* what became of an exception thrown inside updatePreviews
  ec,           \* the last use of the edit button of a rendered widget
  storage,      \* localStorage: the items of the plugin and what accessing does
  now,          \* Date.now(), as days and milliseconds of the day
  sq,           \* the last operation on localStorage and its outcome
  tc,           \* the static-HTML tabs pipeline: its collections and timers
  hq,           \* the calls of hashContent so far and what they returned
  vq,           \* inputs and result of one valueIsInRange call
  hl,           \* the syntax highlighter's processProps run on one marker line
  rd,           \* a TabsBlockManager: its elements, its root element and its render() invocations
  pv,           \* the DOM of one live-preview TabWidget and its renders in flight
  pl,           \* the loop of one parseContent call, line by line
  ef,           \* the edit-state field of one extension and the toggles it has seen
  aw,           \* one TabWidget's active tab, from its construction through clicks on its buttons
  nr,           \* the loop of findNearestTabsStartTagAbove
  fm            \* the FileTabsManager of one file and the elements handed to the post processor

vars == <<docText, selection, livePreview, editState, decos, nextInst,
          passRan, pass, prevPass, owed, txCount, editCount, cq, pq, tq, fault,
          ec, storage, now, sq, tc, hq, vq, hl, rd, pv, pl, ef, aw, nr, fm>>

\* the variables of the parts of the plugin other than the decoration
\* engine, its cursor tracker, its parsers and its exceptions
laterVars == <<ec, storage, now, sq, tc, hq, vq, hl, rd, pv, pl, ef, aw, nr, fm>>

\* the same without the variables of one part
exceptClick   == <<storage, now, sq, tc, hq, vq, hl, rd, pv, pl, ef, aw, nr, fm>>
exceptStore   == <<ec, tc, hq, vq, hl, rd, pv, pl, ef, aw, nr, fm>>
exceptCollect == <<ec, storage, now, sq, hq, vq, hl, rd, pv, pl, ef, aw, nr, fm>>
exceptHash    == <<ec, storage, now, sq, tc, vq, hl, rd, pv, pl, ef, aw, nr, fm>>
exceptRange   == <<ec, storage, now, sq, tc, hq, hl, rd, pv, pl, ef, aw, nr, fm>>
exceptHighlight == <<ec, storage, now, sq, tc, hq, vq, rd, pv, pl, ef, aw, nr, fm>>
exceptRender == <<ec, storage, now, sq, tc, hq, vq, hl, pv, pl, ef, aw, nr, fm>>
exceptPreview == <<ec, storage, now, sq, tc, hq, vq, hl, rd, pl, ef, aw, nr, fm>>
exceptParse == <<ec, storage, now, sq, tc, hq, vq, hl, rd, pv, ef, aw, nr, fm>>
exceptToggle == <<ec, storage, now, sq, tc, hq, vq, hl, rd, pv, pl, aw, nr, fm>>
exceptActive == <<ec, storage, now, sq, tc, hq, vq, hl, rd, pv, pl, ef, nr, fm>>
exceptNearest == <<ec, storage, now, sq, tc, hq, vq, hl, rd, pv, pl, ef, aw, fm>>
exceptRegistry == <<ec, storage, now, sq, tc, hq, vq, hl, rd, pv, pl, ef, aw, nr>>

editorVars == <<docText, selection, livePreview, editState, decos, nextInst,
                passRan, pass, prevPass, owed, txCount, editCount>>

(***************************************************************************)
(* Bounds of the model.                                                    *)
(***************************************************************************)
MaxTx == 3          \* transactions per editing session
MaxEdits == 1       \* document changes per editing session
MaxLines == 5       \* lines of a document of the editing session
MaxScanLines == 5   \* lines of a document handed to a single scan
MaxOffset == 4      \* offsets of the cursor-tracker check range over 0..MaxOffset
MaxTokens == 3      \* tokens of a property string
MaxTabLines == 3    \* lines between the start line and the closing line of a tabs block
MaxStoreOps == 2    \* operations on localStorage per session
MaxFragments == 4   \* fragments handed to the static-HTML tabs processor
MaxTicks == 4       \* steps of the clock of the static-HTML pipeline
MaxCalls == 3       \* calls of hashContent in a session
MaxValue == 3       \* valueIsInRange is called with numbers of -MaxValue..MaxValue
MaxPropsLen == 4    \* characters between the parentheses of a marker line
MaxRenders == 3     \* invocations of TabsBlockManager.render
MaxTabs == 3        \* tabs of the block a live-preview TabWidget shows
MaxParseLines == 5  \* lines of a document handed to a single parseContent call
MaxEffects == 2     \* effects of one transaction
MaxToggleTx == 3    \* transactions the edit-state field sees
MaxBuilds == 2      \* constructions of the TabWidget of one region
MaxClicks == 2      \* clicks on the tab buttons of a live-preview TabWidget
MaxAbove == 4       \* lines above the element findNearestTabsStartTagAbove is called for
MaxProcess == 3     \* calls of TabsPostProcessor.process

(***************************************************************************)
(* Characters and the lines documents are made of.                         *)
(***************************************************************************)
NL == 10
Whitespace == {9, 10, 11, 12, 13, 32}

TabsLine   == <<58, 58, 116, 97, 98, 115>>                      \* "::tabs"
EndLine    == <<58, 58>>                                        \* "::"
EndLineSp  == <<58, 58, 32>>                                    \* ":: "
TextA      == <<65, 97>>                                        \* "Aa"
TextB      == <<66, 66>>                                        \* "BB"
TitleLine  == <<65, 32, 108, 111, 110, 103, 32, 104, 101, 97, 100, 105, 110, 103>>
                                                                \* "A long heading"
FenceLine  == <<96, 96, 96>>                                    \* "```"
SeeLine    == <<115, 101, 101, 32, 58, 58, 116, 97, 98, 115>>   \* "see ::tabs"
NoteLine   == <<58, 58, 110, 111, 116, 101>>                    \* "::note"

\* PreviewExtensionConfig of TabPreviewExtension
startTag  == TabsLine
endTag    == EndLine
fieldName == <<116, 97, 98, 80, 114, 101, 118, 105, 101, 119>>  \* "tabPreview"

(***************************************************************************)
(* String primitives of the JavaScript runtime.                            *)
(***************************************************************************)
Min(a, b) == IF a < b THEN a ELSE b
Max(a, b) == IF a > b THEN a ELSE b

\* s.slice(a, b)
Slice(s, a, b) ==
  LET n  == Len(s)
      a1 == IF a < 0 THEN Max(n + a, 0) ELSE Min(a, n)
      b1 == IF b < 0 THEN Max(n + b, 0) ELSE Min(b, n)
  IN  IF a1 >= b1 THEN <<>> ELSE SubSeq(s, a1 + 1, b1)

\* s.slice(a)
SliceFrom(s, a) == Slice(s, a, Len(s))

\* s.startsWith(p)
StartsWith(s, p) == Len(s) >= Len(p) /\ SubSeq(s, 1, Len(p)) = p

\* s.indexOf(p, from), -1 when there is no occurrence
IndexOf(s, p, from) ==
  LET hits == {k \in from..(Len(s) - Len(p)) : SubSeq(s, k + 1, k + Len(p)) = p}
  IN  IF hits = {} THEN -1 ELSE CHOOSE k \in hits : \A j \in hits : k <= j

\* s.includes(p)
Includes(s, p) == IndexOf(s, p, 0) # -1

\* s.trim(): from the first to the last character that is not whitespace
Trim(s) ==
  LET keep == {k \in 1..Len(s) : s[k] \notin Whitespace}
  IN  IF keep = {} THEN <<>>
      ELSE SubSeq(s, CHOOSE k \in keep : \A j \in keep : k <= j,
                     CHOOSE k \in keep : \A j \in keep : j <= k)

\* s.split('\n')
RECURSIVE Split(_)
Split(s) ==
  LET k == IndexOf(s, <<NL>>, 0)
  IN  IF k = -1 THEN <<s>>
      ELSE <<Slice(s, 0, k)>> \o Split(SliceFrom(s, k + 1))

\* lines.join('\n')
RECURSIVE Join(_)
Join(ls) ==
  IF ls = <<>> THEN <<>>
  ELSE IF Len(ls) = 1 THEN ls[1]
  ELSE ls[1] \o <<NL>> \o Join(Tail(ls))

\* trimmedLine.split(/[\s(]/)[0]: up to the first whitespace or parenthesis
TagName(s) ==
  LET seps == {k \in 1..Len(s) : s[k] \in Whitespace \/ s[k] = 40}
  IN  IF seps = {} THEN s
      ELSE SubSeq(s, 1, (CHOOSE k \in seps : \A j \in seps : k <= j) - 1)

(***************************************************************************)
(* hashContent: a 32-bit rolling hash, printed in base 36.                 *)
(***************************************************************************)
Two16 == 65536

\* A 32-bit integer is kept as its 16-bit halves <<hi, lo>>, two's
\* complement; the value is negative when hi >= Two16 \div 2.
Int32(hi, lo) == <<hi % Two16, lo % Two16>>

\* hash << 5
Shl5(h) == Int32(h[1] * 32 + (h[2] * 32) \div Two16, h[2] * 32)

\* a - b, wrapped to 32 bits
Sub32(a, b) ==
  LET lo == a[2] - b[2]
  IN  Int32(a[1] - b[1] - (IF lo < 0 THEN 1 ELSE 0) + Two16, lo + Two16)

\* a + char, wrapped to 32 bits
AddChar32(a, char) == Int32(a[1] + (a[2] + char) \div Two16, a[2] + char)

\* one iteration of the for loop of hashContent; `hash & hash` wraps the
\* sum to 32 bits
HashStep(hash, char) == AddChar32(Sub32(Shl5(hash), hash), char)

\* the for loop of hashContent: hashes[k + 1] is the value of hash after k
\* iterations
RECURSIVE HashLoop(_, _)
HashLoop(str, hashes) ==
  IF Len(hashes) > Len(str) THEN hashes[Len(hashes)]
  ELSE HashLoop(str, Append(hashes, HashStep(hashes[Len(hashes)], str[Len(hashes)])))

\* Math.abs(hash): the magnitude, as unsigned halves (2^31 for -2^31)
Abs32(h) ==
  IF h[1] >= Two16 \div 2 THEN Sub32(<<0, 0>>, h) ELSE h

Digit36(d) == IF d < 10 THEN 48 + d ELSE 87 + d

\* n.toString(36) for an unsigned n = <<hi, lo>>, by long division
RECURSIVE ToString36(_)
ToString36(n) ==
  LET qhi == n[1] \div 36
      mid == (n[1] % 36) * Two16 + n[2]
      q   == <<qhi, mid \div 36>>
  IN  IF q = <<0, 0>> THEN <<Digit36(mid % 36)>>
      ELSE ToString36(q) \o <<Digit36(mid % 36)>>

\* variant: the hash starts from the number of calls made before
hashContentSeeded(str) ==
  Slice(ToString36(Abs32(HashLoop(str, <<<<0, Len(hq)>>>>))), 0, 8)

\* variant: only the first seven characters are hashed
hashContentOfPrefix(str) ==
  Slice(ToString36(Abs32(HashLoop(Slice(str, 0, 7), <<<<0, 0>>>>))), 0, 8)

hashContent(str) ==
  Slice(ToString36(Abs32(HashLoop(str, <<<<0, 0>>>>))), 0, 8)

(***************************************************************************)
(* utils.ts: the property parser.  A property value is a string or a       *)
(* boolean; a property map is a function from keys to values.              *)
(***************************************************************************)
StringValue(v)  == [type |-> "string", string |-> v, boolean |-> FALSE]
BooleanValue(b) == [type |-> "boolean", string |-> <<>>, boolean |-> b]

\* the regular expression class \w
IsWord(c) == c \in (48..57) \cup (65..90) \cup (97..122) \cup {95}

\* s.toLowerCase()
ToLowerCase(s) == [i \in 1..Len(s) |-> IF s[i] \in 65..90 THEN s[i] + 32 ELSE s[i]]

\* "true"
TrueWord == <<116, 114, 117, 101>>

\* \w+ from offset p: the offset behind the run of word characters
WordEnd(s, p) ==
  CHOOSE q \in p..Len(s) :
    /\ \A r \in p..(q - 1) : IsWord(s[r + 1])
    /\ q = Len(s) \/ ~IsWord(s[q + 1])

\* the offset of the first double quote at or after p, -1 when there is none
QuoteFrom(s, p) == IndexOf(s, <<34>>, p)

\* One match of /(\w+)(?:=(?:"([^"]*)"|(\w+)))?/ at offset p, where a word
\* character stands, the key ending at offset k: the key, the value the for
\* loop assigns to it and the offset behind the match.  An empty quoted
\* string is falsy as a missing value is: the key becomes a flag.
matchAt(s, p, k) ==
  IF k + 1 < Len(s) /\ s[k + 1] = 61 /\ s[k + 2] = 34 /\ QuoteFrom(s, k + 2) # -1
  THEN [key   |-> Slice(s, p, k),
        value |-> IF Slice(s, k + 2, QuoteFrom(s, k + 2)) = <<>>
                  THEN BooleanValue(TRUE)
                  ELSE StringValue(Slice(s, k + 2, QuoteFrom(s, k + 2))),
        end   |-> QuoteFrom(s, k + 2) + 1]
  ELSE IF k + 1 < Len(s) /\ s[k + 1] = 61 /\ IsWord(s[k + 2])
  THEN [key   |-> Slice(s, p, k),
        value |-> BooleanValue(
                    ToLowerCase(Slice(s, k + 1, WordEnd(s, k + 1))) = TrueWord),
        end   |-> WordEnd(s, k + 1)]
  ELSE [key |-> Slice(s, p, k), value |-> BooleanValue(TRUE), end |-> k]

\* variant: a key that is already set keeps its value
RECURSIVE propMatchesFirstWins(_, _, _)
propMatchesFirstWins(propString, p, properties) ==
  IF p >= Len(propString) THEN properties
  ELSE IF ~IsWord(propString[p + 1])
  THEN propMatchesFirstWins(propString, p + 1, properties)
  ELSE propMatchesFirstWins(
         propString, matchAt(propString, p, WordEnd(propString, p)).end,
         properties @@ (matchAt(propString, p, WordEnd(propString, p)).key
                          :> matchAt(propString, p, WordEnd(propString, p)).value))

\* the for loop over propString.matchAll(...), from offset p on: a later
\* match of a key overwrites an earlier one
RECURSIVE propMatches(_, _, _)
propMatches(propString, p, properties) ==
  IF p >= Len(propString) THEN properties
  ELSE IF ~IsWord(propString[p + 1])
  THEN propMatches(propString, p + 1, properties)
  ELSE propMatches(
         propString, matchAt(propString, p, WordEnd(propString, p)).end,
         (matchAt(propString, p, WordEnd(propString, p)).key
            :> matchAt(propString, p, WordEnd(propString, p)).value) @@ properties)

\* line.match(pattern)[1] for the pattern /<tag>\((.*?)\)/: the text between
\* the first `<tag>(` that a `)` follows on its line and that `)`;
\* found is false when the pattern does not match
propsGroup(line, tag) ==
  LET open  == tag \o <<40>>
      close(i) == IndexOf(line, <<41>>, i + Len(open))
      hits  == {i \in 0..(Len(line) - Len(open)) :
                  /\ SubSeq(line, i + 1, i + Len(open)) = open
                  /\ close(i) # -1
                  /\ ~Includes(Slice(line, i + Len(open), close(i)), <<NL>>)}
      first == CHOOSE i \in hits : \A j \in hits : i <= j
  IN  IF hits = {} THEN [found |-> FALSE, text |-> <<>>]
      ELSE [found |-> TRUE, text |-> Slice(line, first + Len(open), close(first))]

\* parseBlockProperties(line, pattern), the pattern being /<tag>\((.*?)\)/
parseBlockProperties(line, tag) ==
  IF ~propsGroup(line, tag).found \/ propsGroup(line, tag).text = <<>>
  THEN <<>>
  ELSE propMatches(Trim(propsGroup(line, tag).text), 0, <<>>)

(***************************************************************************)
(* utils.ts and tabsWidget.ts: the parts of a tabs block.                  *)
(***************************************************************************)
TabMarker   == <<45, 45, 116, 97, 98>>                      \* "--tab"
TitleKey    == <<116, 105, 116, 108, 101>>                  \* "title"
RawTitleKey == <<114, 97, 119, 84, 105, 116, 108, 101>>     \* "rawTitle"

\* the marker characters [*_] of cleanMarkdownString
IsMarker(c) == c \in {42, 95}

\* the offset of the first marker character at or after p, -1 when none
MarkerFrom(s, p) ==
  IF \E q \in p..(Len(s) - 1) : IsMarker(s[q + 1])
  THEN CHOOSE q \in p..(Len(s) - 1) :
         IsMarker(s[q + 1]) /\ \A r \in p..(q - 1) : ~IsMarker(s[r + 1])
  ELSE -1

\* [*_]{1,2} at offset p: the number of marker characters it takes
MarkerLen(s, p) ==
  IF p + 1 < Len(s) /\ IsMarker(s[p + 2]) THEN 2 ELSE 1

\* /[*_]{1,2}([^*_]+)[*_]{1,2}/ matches at offset p: one or two markers,
\* at least one other character, and a marker behind them
emphasisAt(s, p) ==
  /\ IsMarker(s[p + 1])
  /\ p + MarkerLen(s, p) < Len(s)
  /\ ~IsMarker(s[p + MarkerLen(s, p) + 1])
  /\ MarkerFrom(s, p + MarkerLen(s, p)) # -1

\* .replace(/[*_]{1,2}([^*_]+)[*_]{1,2}/g, '$1') from offset p on
RECURSIVE stripEmphasis(_, _, _)
stripEmphasis(s, p, out) ==
  IF p >= Len(s) THEN out
  ELSE IF ~emphasisAt(s, p) THEN stripEmphasis(s, p + 1, Append(out, s[p + 1]))
  ELSE stripEmphasis(
         s,
         MarkerFrom(s, p + MarkerLen(s, p))
           + MarkerLen(s, MarkerFrom(s, p + MarkerLen(s, p))),
         out \o Slice(s, p + MarkerLen(s, p), MarkerFrom(s, p + MarkerLen(s, p))))

\* the length of the run of characters of the set cs from offset p
RunLen(s, p, cs) ==
  CHOOSE n \in 0..(Len(s) - p) :
    /\ \A r \in 1..n : s[p + r] \in cs
    /\ p + n = Len(s) \/ s[p + n + 1] \notin cs

\* .replace(/^#{1,6}\s+/g, '')
stripHeading(s) ==
  IF /\ RunLen(s, 0, {35}) \in 1..6
     /\ RunLen(s, RunLen(s, 0, {35}), Whitespace) > 0
  THEN SliceFrom(s, RunLen(s, 0, {35}) + RunLen(s, RunLen(s, 0, {35}), Whitespace))
  ELSE s

cleanMarkdownString(str) == Trim(stripHeading(stripEmphasis(str, 0, <<>>)))

\* (?:\((.*?)\))? at offset a of line: the offset behind the parenthesised
\* group, a itself when no group stands there
groupEnd(line, a) ==
  IF /\ a < Len(line)
     /\ line[a + 1] = 40
     /\ IndexOf(line, <<41>>, a + 1) # -1
     /\ ~Includes(Slice(line, a + 1, IndexOf(line, <<41>>, a + 1)), <<NL>>)
  THEN IndexOf(line, <<41>>, a + 1) + 1
  ELSE a

\* parseTabProperties with the offset a behind the first `--tab` of the line
tabProperties(tabLine, a) ==
  (RawTitleKey :> StringValue(Trim(SliceFrom(tabLine, groupEnd(tabLine, a)))))
  @@ (TitleKey :> StringValue(
        cleanMarkdownString(Trim(SliceFrom(tabLine, groupEnd(tabLine, a))))))
  @@ (IF groupEnd(tabLine, a) > a + 2
      THEN parseBlockProperties(tabLine, TabMarker)
      ELSE <<>>)

\* parseTabProperties(tabLine)
parseTabProperties(tabLine) ==
  IF IndexOf(tabLine, TabMarker, 0) = -1
  THEN (TitleKey :> StringValue(<<>>)) @@ (RawTitleKey :> StringValue(<<>>))
  ELSE tabProperties(tabLine, IndexOf(tabLine, TabMarker, 0) + Len(TabMarker))

\* content.replace(/^::tabs(?:\((.*?)\))?\n?/, '')
stripStart(content) ==
  IF ~StartsWith(content, startTag) THEN content
  ELSE SliceFrom(content,
         IF /\ groupEnd(content, Len(startTag)) < Len(content)
            /\ content[groupEnd(content, Len(startTag)) + 1] = NL
         THEN groupEnd(content, Len(startTag)) + 1
         ELSE groupEnd(content, Len(startTag)))

\* .replace(/\n?::$/, '')
stripEnd(s) ==
  IF Len(s) < 2 \/ SubSeq(s, Len(s) - 1, Len(s)) # EndLine THEN s
  ELSE IF Len(s) > 2 /\ s[Len(s) - 2] = NL THEN SubSeq(s, 1, Len(s) - 3)
  ELSE SubSeq(s, 1, Len(s) - 2)

\* currentTab of parseTabs; open is false for null
NoTab == [open |-> FALSE, properties |-> <<>>, content |-> <<>>]

\* tabs.push({ title, content, properties }) when currentTab is set
pushTab(tabs, currentTab) ==
  IF currentTab.open
  THEN Append(tabs,
              [title      |-> cleanMarkdownString(currentTab.properties[TitleKey].string),
               content    |-> Join(currentTab.content),
               properties |-> currentTab.properties])
  ELSE tabs

\* the for loop of parseTabs from line i on; the result holds the tabs
\* pushed so far and currentTab
RECURSIVE tabLoop(_, _, _, _)
tabLoop(lines, i, tabs, currentTab) ==
  IF i > Len(lines) THEN [tabs |-> tabs, currentTab |-> currentTab]
  ELSE IF StartsWith(Trim(lines[i]), TabMarker)
  THEN tabLoop(lines, i + 1, pushTab(tabs, currentTab),
               [open |-> TRUE, properties |-> parseTabProperties(lines[i]),
                content |-> <<>>])
  ELSE IF currentTab.open
  THEN tabLoop(lines, i + 1, tabs,
               [currentTab EXCEPT !.content = Append(currentTab.content, lines[i])])
  ELSE tabLoop(lines, i + 1, tabs, currentTab)

\* variant: the tab that is open at the end of the content is not added
parseTabsForgetLast(content) ==
  tabLoop(Split(stripEnd(stripStart(content))), 1, <<>>, NoTab).tabs

\* TabWidget.parseTabs
parseTabs(content) ==
  pushTab(tabLoop(Split(stripEnd(stripStart(content))), 1, <<>>, NoTab).tabs,
          tabLoop(Split(stripEnd(stripStart(content))), 1, <<>>, NoTab).currentTab)

\* TabWidget.parseTabBlockProperties
parseTabBlockProperties(content) ==
  IF StartsWith(content, startTag) THEN parseBlockProperties(content, startTag)
  ELSE <<>>

\* TabWidget.loadActiveTab; stored is the index kept in localStorage, -1
\* when there is none
loadActiveTab(stored, tabs) ==
  IF stored >= 0 /\ stored < Len(tabs) THEN stored ELSE 0

(***************************************************************************)
(* utils.ts: the cursor tracker.                                           *)
(***************************************************************************)
\* variant: the end of the range is excluded
valueIsInRangeExclusive(value, start, end) == value >= start /\ value < end

\* variant: the start of the range is excluded
valueIsInRangeOpenStart(value, start, end) == value > start /\ value <= end

valueIsInRange(value, start, end) == value >= start /\ value <= end

\* cursorLocations: sequence of positions; ranges: sequence of [from, to]
checkCursorInRegion(startIndex, endIndex, cursorLocations, ranges) ==
  \/ \E i \in 1..Len(cursorLocations) :
       valueIsInRange(cursorLocations[i], startIndex, endIndex)
  \/ \E i \in 1..Len(ranges) :
       \/ valueIsInRange(ranges[i].from, startIndex, endIndex)
       \/ valueIsInRange(ranges[i].to, startIndex, endIndex)
       \/ (ranges[i].from <= startIndex /\ ranges[i].to >= endIndex)

\* the positions (range.head) of the empty ranges of the selection
RECURSIVE getCursorLocations(_)
getCursorLocations(ranges) ==
  IF ranges = <<>> THEN <<>>
  ELSE (IF Head(ranges).from = Head(ranges).to
        THEN <<Head(ranges).from>> ELSE <<>>)
       \o getCursorLocations(Tail(ranges))

(***************************************************************************)
(* The host's syntax tree: an offset is inside a fenced code block when    *)
(* its line lies between an opening ``` line and the closing one (both     *)
(* included), or after an opening line that is never closed.               *)
(***************************************************************************)
IsFence(line) == StartsWith(Trim(line), FenceLine)

\* number of the line (1-based) that holds offset pos
RECURSIVE LineOf(_, _, _, _)
LineOf(lines, i, lineStart, pos) ==
  IF i >= Len(lines) \/ pos <= lineStart + Len(lines[i]) THEN i
  ELSE LineOf(lines, i + 1, lineStart + Len(lines[i]) + 1, pos)

\* is line k inside a fenced block, scanning from line i with the fence open or not
RECURSIVE InFence(_, _, _, _)
InFence(lines, i, k, open) ==
  IF i = k THEN open \/ IsFence(lines[i])
  ELSE InFence(lines, i + 1, k, IF IsFence(lines[i]) THEN ~open ELSE open)

isInCodeBlock(text, pos) ==
  LET lines == Split(text)
  IN  InFence(lines, 1, LineOf(lines, 1, 0, pos), FALSE)

(***************************************************************************)
(* basePreviewExtension.ts: the region scanner.                            *)
(***************************************************************************)
NoParse == [found |-> FALSE, content |-> <<>>, endPos |-> -1]

\* the for loop of parseContent, from line i on
RECURSIVE parseLines(_, _, _, _, _, _, _, _)
parseLines(text, lines, i, currentPos, stack, nestingLevel, contentStart, initialTag) ==
  IF i > Len(lines) THEN NoParse
  ELSE
    LET line      == lines[i]
        lineStart == currentPos
        nextPos   == currentPos + Len(line) + 1
    IN  IF Trim(line) = EndLine
        THEN IF Len(stack) > 0
             THEN LET level   == nestingLevel - 1
                      lastTag == stack[Len(stack)]
                      rest    == SubSeq(stack, 1, Len(stack) - 1)
                  IN  IF level = 0 /\ lastTag = initialTag
                      THEN [found   |-> TRUE,
                            content |-> Trim(Slice(text, contentStart, lineStart + Len(line))),
                            endPos  |-> lineStart + Len(line)]
                      ELSE parseLines(text, lines, i + 1, nextPos, rest, level,
                                      contentStart, initialTag)
             ELSE parseLines(text, lines, i + 1, nextPos, stack, nestingLevel,
                             contentStart, initialTag)
        ELSE IF StartsWith(Trim(line), EndLine)
        THEN LET tagName == TagName(Trim(line))
             IN  parseLines(text, lines, i + 1, nextPos, Append(stack, tagName),
                            nestingLevel + 1,
                            IF contentStart = -1 THEN lineStart ELSE contentStart,
                            IF contentStart = -1 THEN tagName ELSE initialTag)
        ELSE parseLines(text, lines, i + 1, nextPos, stack, nestingLevel,
                        contentStart, initialTag)

\* variant: the region ends at the first end line, whatever was opened
parseContentFirstEnd(text, startPos) ==
  LET lines == Split(SliceFrom(text, startPos))
      ends  == {l \in 2..Len(lines) : Trim(lines[l]) = EndLine}
      first == CHOOSE l \in ends : \A m \in ends : l <= m
      len   == Len(Join(SubSeq(lines, 1, first)))
  IN  IF ends = {} THEN NoParse
      ELSE [found |-> TRUE, content |-> Trim(Slice(text, startPos, startPos + len)),
            endPos |-> startPos + len]

\* variant: a region left open at the end of the document runs to its end
parseContentToEnd(text, startPos) ==
  IF parseLines(text, Split(SliceFrom(text, startPos)), 1, startPos, <<>>, 0, -1, <<>>).found
  THEN parseLines(text, Split(SliceFrom(text, startPos)), 1, startPos, <<>>, 0, -1, <<>>)
  ELSE [found |-> TRUE, content |-> Trim(SliceFrom(text, startPos)),
        endPos |-> Len(text)]

\* variant: the end offset also counts the newline behind the closing line
parseContentPastNewline(text, startPos) ==
  IF parseLines(text, Split(SliceFrom(text, startPos)), 1, startPos, <<>>, 0, -1, <<>>).found
  THEN [found   |-> TRUE,
        content |-> parseLines(text, Split(SliceFrom(text, startPos)), 1, startPos,
                               <<>>, 0, -1, <<>>).content,
        endPos  |-> parseLines(text, Split(SliceFrom(text, startPos)), 1, startPos,
                               <<>>, 0, -1, <<>>).endPos + 1]
  ELSE NoParse

parseContent(text, startPos) ==
  parseLines(text, Split(SliceFrom(text, startPos)), 1, startPos, <<>>, 0, -1, <<>>)

\* BasePreviewExtension.shouldProcessContent
shouldProcessContentBase(content) ==
  ~StartsWith(Trim(Split(content)[1]), FenceLine)

\* TabPreviewExtension.shouldProcessContent: always process
shouldProcessContent(content) == TRUE

(***************************************************************************)
(* Widgets and the identity cache.  A widget object is identified by its   *)
(* construction number inst; id and content are readonly fields.           *)
(***************************************************************************)
TabWidget == "TabWidget"

NoWidget == [cls |-> "none", inst |-> 0, id |-> <<>>, content |-> <<>>,
             isEditing |-> FALSE]

\* variant: one widget object per id, kept for the life of the extension
createWidgetPerId(content, id, isEditing, inst) ==
  [cls |-> "TabWidget", inst |-> 1, id |-> id, content |-> content,
   isEditing |-> isEditing]

\* TabPreviewExtension.createWidget: new TabWidget(content, id, isEditing, app)
createWidget(content, id, isEditing, inst) ==
  [cls |-> TabWidget, inst |-> inst, id |-> id, content |-> content,
   isEditing |-> isEditing]

\* `${fieldName}-${contentHash}`
widgetId(regionText) == fieldName \o <<45>> \o hashContent(regionText)

\* oldState.between(0, docLength, f) calls f for the ranges that touch
\* [0, docLength], in ascending order; a later widget of the same id
\* overwrites an earlier one in the Map.
collectExistingWidgets(oldState, docLength, widgetConstructor) ==
  LET visited == {i \in 1..Len(oldState) :
                    /\ oldState[i].from <= docLength
                    /\ oldState[i].to >= 0
                    /\ oldState[i].widget.cls = widgetConstructor
                    /\ oldState[i].widget.id # <<>>}
      ids     == {oldState[i].widget.id : i \in visited}
      last(id) == CHOOSE i \in visited :
                    /\ oldState[i].widget.id = id
                    /\ \A j \in visited : oldState[j].widget.id = id => j <= i
  IN  [id \in ids |-> oldState[last(id)].widget]

\* variant: when the id is not cached, any cached widget is handed out
getOrCreateWidgetAny(regionText, id, isEditing, existingWidgets, inst) ==
  IF id \in DOMAIN existingWidgets
  THEN existingWidgets[id]
  ELSE IF DOMAIN existingWidgets # {}
  THEN existingWidgets[CHOOSE k \in DOMAIN existingWidgets : TRUE]
  ELSE createWidget(regionText, id, isEditing, inst)

\* getOrCreateWidget; inst is the construction number a new widget would get
getOrCreateWidget(regionText, id, isEditing, existingWidgets, inst) ==
  IF id \in DOMAIN existingWidgets
  THEN existingWidgets[id]
  ELSE createWidget(regionText, id, isEditing, inst)

\* variant: createDecoration without the code-block check
createDecorationAnywhere(startIndex, endIndex, regionText, text, ranges, edits, existingWidgets, inst) ==
  IF checkCursorInRegion(startIndex, endIndex,
                         getCursorLocations(ranges), ranges)
  THEN NoWidget
  ELSE getOrCreateWidget(regionText, widgetId(regionText),
                         widgetId(regionText) \in edits, existingWidgets, inst)

\* createDecoration: NoWidget stands for the null result
createDecoration(startIndex, endIndex, regionText, text, ranges, edits, existingWidgets, inst) ==
  IF isInCodeBlock(text, startIndex) THEN NoWidget
  ELSE IF checkCursorInRegion(startIndex, endIndex,
                              getCursorLocations(ranges), ranges)
  THEN NoWidget
  ELSE LET id == widgetId(regionText)
       IN  getOrCreateWidget(regionText, id, id \in edits, existingWidgets, inst)

(***************************************************************************)
(* The decoration builder.                                                 *)
(***************************************************************************)
\* variant: the live preview field is not consulted
shouldUpdateInAnyMode(live, docChanged, effects, selectionSet) ==
  docChanged \/ effects > 0 \/ selectionSet

\* variant: a selection change alone does not qualify for an update
shouldUpdateOnChangeOnly(live, docChanged, effects, selectionSet) ==
  IF live = FALSE THEN FALSE
  ELSE docChanged \/ effects > 0

\* shouldUpdatePreviews
shouldUpdatePreviews(live, docChanged, effects, selectionSet) ==
  IF live = FALSE THEN FALSE
  ELSE docChanged \/ effects > 0 \/ selectionSet

\* variant: after a failed match the scan advances by one character only
stepResultAdvanceOne(nextTag, parseResult, next, widget) ==
  [entry |-> [startIndex |-> nextTag, found |-> parseResult.found,
              endIndex |-> parseResult.endPos, regionText |-> parseResult.content,
              accepted |-> parseResult.found /\ shouldProcessContent(parseResult.content),
              widget |-> widget,
              created |-> widget # NoWidget /\ widget.inst = next + 2,
              pos |-> IF parseResult.found THEN parseResult.endPos ELSE nextTag + 1],
   next  |-> IF ~(parseResult.found /\ shouldProcessContent(parseResult.content)) THEN next
             ELSE IF widget # NoWidget /\ widget.inst = next + 2 THEN next + 2 ELSE next + 1,
   pos   |-> IF parseResult.found THEN parseResult.endPos ELSE nextTag + 1]

\* variant: after a successful match the scan resumes right behind the start
\* tag, inside the region
stepResultRescanInside(nextTag, parseResult, next, widget) ==
  [entry |-> [startIndex |-> nextTag, found |-> parseResult.found,
              endIndex |-> parseResult.endPos, regionText |-> parseResult.content,
              accepted |-> parseResult.found /\ shouldProcessContent(parseResult.content),
              widget |-> widget,
              created |-> widget # NoWidget /\ widget.inst = next + 2,
              pos |-> nextTag + Len(startTag)],
   next  |-> IF ~(parseResult.found /\ shouldProcessContent(parseResult.content)) THEN next
             ELSE IF widget # NoWidget /\ widget.inst = next + 2 THEN next + 2 ELSE next + 1,
   pos   |-> nextTag + Len(startTag)]

\* The outcome of one iteration of the while loop of updatePreviews for the
\* start tag at nextTag: the log entry (with the value of pos the iteration
\* leaves), the number of widgets constructed so far and the next scan
\* position.  widget is the widget of the decoration added to the builder,
\* NoWidget when none is added.
stepResult(nextTag, parseResult, next, widget) ==
  LET accepted == parseResult.found /\ shouldProcessContent(parseResult.content)
      created  == widget # NoWidget /\ widget.inst = next + 2
  IN  [entry |-> [startIndex |-> nextTag,
                  found      |-> parseResult.found,
                  endIndex   |-> parseResult.endPos,
                  regionText |-> parseResult.content,
                  accepted   |-> accepted,
                  widget     |-> widget,
                  created    |-> created,
                  pos        |-> IF parseResult.found THEN parseResult.endPos
                                 ELSE nextTag + Len(startTag)],
       next  |-> IF ~accepted THEN next
                 ELSE IF created THEN next + 2 ELSE next + 1,
       pos   |-> IF parseResult.found THEN parseResult.endPos
                 ELSE nextTag + Len(startTag)]

\* The body of `if (parseResult)`: the region, its context and its
\* decoration.  The context constructs a widget only to read its constructor
\* (construction number next + 1); a widget made for the region is next + 2.
processRegion(text, ranges, edits, oldState, next, nextTag, parseResult) ==
  stepResult(nextTag, parseResult, next,
             IF parseResult.found /\ shouldProcessContent(parseResult.content)
             THEN createDecoration(
                    nextTag, parseResult.endPos, parseResult.content, text,
                    ranges, edits,
                    collectExistingWidgets(
                      oldState, Len(text),
                      createWidget(<<>>, <<>>, FALSE, next + 1).cls),
                    next + 2)
             ELSE NoWidget)

\* one iteration of the while loop of updatePreviews
scanStep(text, ranges, edits, oldState, nextTag, next) ==
  processRegion(text, ranges, edits, oldState, next, nextTag,
                parseContent(text, nextTag))

\* the while loop of updatePreviews; scanNext takes the outcome of an
\* iteration to the next one
RECURSIVE scanLoop(_, _, _, _, _, _, _, _)
RECURSIVE scanNext(_, _, _, _, _, _, _)
scanNext(text, ranges, edits, oldState, builder, log, step) ==
  scanLoop(text, ranges, edits, oldState, step.pos,
           IF step.entry.widget # NoWidget
           THEN Append(builder, [from   |-> step.entry.startIndex,
                                 to     |-> step.entry.endIndex,
                                 widget |-> step.entry.widget])
           ELSE builder,
           Append(log, step.entry), step.next)

\* variant: the scan stops at the first start tag that does not match
scanLoopStopAtFail(text, ranges, edits, oldState, pos, builder, log, next) ==
  IF ~(pos < Len(text)) \/ IndexOf(text, startTag, pos) = -1
  THEN [decos |-> builder, log |-> log, next |-> next, ran |-> TRUE]
  ELSE IF ~parseContent(text, IndexOf(text, startTag, pos)).found
  THEN [decos |-> builder,
        log |-> Append(log, scanStep(text, ranges, edits, oldState,
                                     IndexOf(text, startTag, pos), next).entry),
        next |-> next, ran |-> TRUE]
  ELSE scanNext(text, ranges, edits, oldState, builder, log,
                scanStep(text, ranges, edits, oldState,
                         IndexOf(text, startTag, pos), next))

scanLoop(text, ranges, edits, oldState, pos, builder, log, next) ==
  IF ~(pos < Len(text)) \/ IndexOf(text, startTag, pos) = -1
  THEN [decos |-> builder, log |-> log, next |-> next, ran |-> TRUE]
  ELSE scanNext(text, ranges, edits, oldState, builder, log,
                scanStep(text, ranges, edits, oldState,
                         IndexOf(text, startTag, pos), next))

\* updatePreviews(oldState, transaction)
updatePreviews(oldState, text, ranges, edits, live, docChanged, effects, selectionSet, next) ==
  IF ~shouldUpdatePreviews(live, docChanged, effects, selectionSet)
  THEN [decos |-> oldState, log |-> <<>>, next |-> next, ran |-> FALSE]
  ELSE IF ~Includes(text, startTag)
  THEN [decos |-> <<>>, log |-> <<>>, next |-> next, ran |-> TRUE]
  ELSE scanLoop(text, ranges, edits, oldState, 0, <<>>, <<>>, next)

(***************************************************************************)
(* Documents, selections and edits of an editing session.                  *)
(***************************************************************************)
EmptyLine == <<>>

\* the lines of a document; the empty document has none
LinesOf(text) == IF text = <<>> THEN <<>> ELSE Split(text)

\* the lines an edit types or pastes
EditLines == {TabsLine, EndLineSp, TextB}

\* the documents a session opens
InitDocs ==
  { Join(<<TitleLine, TabsLine, TextA, EndLine, EmptyLine>>),
    Join(<<TabsLine, EndLine, EmptyLine, TabsLine, EndLine>>),
    Join(<<FenceLine, TabsLine, EndLine, FenceLine>>) }

\* the document a paste over the whole document leaves
PasteDocs == {Join(<<TabsLine, TextB, EndLine, EmptyLine>>)}

\* offset of the start of line i
RECURSIVE LineStart(_, _)
LineStart(lines, i) ==
  IF i = 1 THEN 0 ELSE LineStart(lines, i - 1) + Len(lines[i - 1]) + 1

Caret(p) == <<[from |-> p, to |-> p]>>

\* selections of one range: a caret at the start of a line or at the end of
\* the document, or the whole document selected
Selections(text) ==
  LET lines == Split(text)
  IN  {Caret(p) : p \in {LineStart(lines, i) : i \in 1..Len(lines)} \cup {Len(text)}}
      \cup (IF Len(text) > 0 THEN {<<[from |-> 0, to |-> Len(text)]>>} ELSE {})

\* an edit: the new lines and the offset the caret is left at
DeleteLine(lines, i) ==
  LET new == SubSeq(lines, 1, i - 1) \o SubSeq(lines, i + 1, Len(lines))
  IN  [text |-> Join(new), caret |-> Min(LineStart(lines, i), Len(Join(new)))]

ReplaceLine(lines, i, l) ==
  LET new == [lines EXCEPT ![i] = l]
  IN  [text |-> Join(new), caret |-> LineStart(new, i) + Len(l)]

InsertLine(lines, i, l) ==
  LET new == SubSeq(lines, 1, i - 1) \o <<l>> \o SubSeq(lines, i, Len(lines))
  IN  [text |-> Join(new), caret |-> LineStart(new, i) + Len(l)]

Edits(text) ==
  LET lines == LinesOf(text)
      n     == Len(lines)
  IN  {DeleteLine(lines, i) : i \in 1..n}
      \cup {ReplaceLine(lines, i, l) :
              <<i, l>> \in {p \in (1..n) \X EditLines : lines[p[1]] # p[2]}}
      \cup (IF n < MaxLines
            THEN {InsertLine(lines, i, l) : <<i, l>> \in (1..(n + 1)) \X EditLines}
            ELSE {})
      \cup {[text |-> d, caret |-> Len(d)] : d \in PasteDocs \ {text}}

(***************************************************************************)
(* The fingerprints the lifecycle rule of the identity cache still owes an *)
(* instance: rendered in this pass, or owed before and still among the     *)
(* regions of this pass.                                                   *)
(***************************************************************************)
NewOwed(log, before) ==
  LET cand == {i \in 1..Len(log) : log[i].accepted}
      rend == {i \in cand : log[i].widget # NoWidget}
      idOf(i) == widgetId(log[i].regionText)
      ids  == {idOf(i) : i \in rend}
              \cup {idOf(i) : i \in {k \in cand : idOf(k) \in DOMAIN before}}
      lastR(id) == CHOOSE i \in rend :
                     idOf(i) = id /\ \A j \in rend : idOf(j) = id => j <= i
  IN  [id \in ids |->
         IF \E i \in rend : idOf(i) = id THEN log[lastR(id)].widget.inst
         ELSE before[id]]

\* the log of a pass, each entry with the instance owed to its fingerprint
\* before the pass (0: none)
Annotate(log, before) ==
  [i \in 1..Len(log) |->
     [startIndex |-> log[i].startIndex, found |-> log[i].found,
      endIndex |-> log[i].endIndex, regionText |-> log[i].regionText,
      accepted |-> log[i].accepted, widget |-> log[i].widget,
      created |-> log[i].created, pos |-> log[i].pos,
      owed |-> IF log[i].accepted /\ widgetId(log[i].regionText) \in DOMAIN before
               THEN before[widgetId(log[i].regionText)] ELSE 0]]

(***************************************************************************)
(* Transactions.  The preview field and the edit-state field are updated   *)
(* synchronously by every transaction.                                     *)
(***************************************************************************)
NoQuery == [startIndex |-> 0, endIndex |-> 0, carets |-> <<>>, ranges |-> <<>>,
            asked |-> FALSE, result |-> FALSE]

NoProps == [asked |-> FALSE, tokens |-> <<>>, line |-> <<>>, result |-> <<>>]

NoTabs == [asked |-> FALSE, open |-> <<>>, body |-> <<>>, close |-> <<>>, content |-> <<>>,
           tabs |-> <<>>, properties |-> <<>>, activeTab |-> 0]

\* the last exception thrown in a pass: the transaction it was thrown in,
\* whether it left updatePreviews, and the decoration set before it
NoFault == [threw |-> FALSE, at |-> 0, escaped |-> FALSE, oldState |-> <<>>]

NoPass == [n |-> 0, base |-> 0, docText |-> <<>>, selection |-> <<>>,
           decos |-> <<>>, log |-> <<>>]

\* no edit button has been used; kind is the widget class of the extension
NoClick == [clicked |-> FALSE, kind |-> "TabWidget", startIndex |-> 0, endIndex |-> 0,
            dispatched |-> FALSE, at |-> 0]

\* an item of localStorage that was never set: getItem returns null
NoItem == [present |-> FALSE, text |-> <<>>]

\* the item of the block states never set; a set item is JSON text, of the
\* object `value` when it parses
NoJson == [present |-> FALSE, json |-> FALSE, value |-> <<>>]

NoStorage == [tabWidget |-> NoItem, manager |-> NoItem, blocks |-> NoJson, writes |-> 0]

Epoch == [d |-> 0, ms |-> 0]

NoStoreOp == [n |-> 0, op |-> "none", readFailed |-> FALSE, writeFailed |-> FALSE,
              threw |-> FALSE, result |-> 0, default |-> 0, before |-> NoStorage]

ClickIdle == ec = NoClick

StoreIdle == storage = NoStorage /\ now = Epoch /\ sq = NoStoreOp

\* the static-HTML pipeline before the first fragment: no collection, no
\* commit, the clock at 0
NoCollect == [map |-> <<>>, clk |-> 0, nextId |-> 1, arrived |-> 0, done |-> <<>>]

CollectIdle == tc = NoCollect

HashIdle == hq = <<>>

NoRange == [asked |-> FALSE, value |-> 0, start |-> 0, end |-> 0, result |-> FALSE]

RangeIdle == vq = NoRange

\* a DecorationManager as its constructor leaves it
NewManager == [decorations |-> <<>>, processedRanges |-> {}, inProps |-> FALSE, errors |-> 0]

NoHighlight == [started |-> FALSE, running |-> FALSE, text |-> <<>>, propsStart |-> 0, propsContent |-> <<>>, pos |-> 0, startPos |-> 0, iterations |-> 0, manager |-> NewManager]

HighlightIdle == hl = NoHighlight

\* a TabsBlockManager as its constructor leaves it, with an empty root
NoRender == [elements |-> <<>>, nextEl |-> 1, activeTabIndex |-> 0, saved |-> 0 - 1, root |-> <<>>, calls |-> <<>>, overlapped |-> FALSE]

RenderIdle == rd = NoRender

\* no TabWidget has built its preview yet
NoPreview == [created |-> FALSE, tabs |-> 0, icons |-> {}, activeTab |-> 0, saved |-> 0 - 1, rendering |-> {}, made |-> <<>>, iconsAwaited |-> {}, tabButtons |-> <<>>, tabContents |-> <<>>, clicks |-> 0]

PreviewIdle == pv = NoPreview

\* no parseContent call has begun
NoParseLoop == [called |-> FALSE, done |-> FALSE, text |-> <<>>, startPos |-> 0, lines |-> <<>>, i |-> 0, currentPos |-> 0, stack |-> <<>>, nestingLevel |-> 0, contentStart |-> 0 - 1, initialTag |-> <<>>, result |-> [found |-> FALSE, content |-> <<>>, endPos |-> 0 - 1], starts |-> 0, ends |-> 0, passedBalance |-> FALSE]

ParseIdle == pl = NoParseLoop

\* the edit-state field as create() leaves it: an empty Map; latest is the
\* value of the most recent toggle of this extension per id ("none" when
\* there was none)
NoToggle == [value |-> <<>>, latest |-> [id \in {"a", "b"} |-> "none"], effects |-> <<>>, transactions |-> 0]

ToggleIdle == ef = NoToggle

\* no TabWidget has been constructed; item is what localStorage holds under
\* the widget's key, found what the constructor met there
NoActive == [constructed |-> FALSE, tabs |-> 0, activeTab |-> 0, item |-> [present |-> FALSE, text |-> <<>>], found |-> [present |-> FALSE, text |-> <<>>], getFailed |-> FALSE, clicks |-> 0, builds |-> 0]

ActiveIdle == aw = NoActive

\* no call of findNearestTabsStartTagAbove is in progress
NoNearest == [called |-> FALSE, linesAbove |-> <<>>, lineStart |-> 0, i |-> 0, openTabsBlocks |-> <<>>, openBlocks |-> <<>>, done |-> FALSE]

NearestIdle == nr = NoNearest

\* no manager, no element handed to the post processor, no call yet
NoRegistry == [managers |-> <<>>, tabsBlocks |-> <<>>, generation |-> 0, dom |-> <<>>, uids |-> 0, calls |-> 0, live |-> {}, last |-> [branch |-> "none", el |-> 0]]

RegistryIdle == fm = NoRegistry

\* the other parts of the plugin at rest
LaterIdle ==
  /\ ClickIdle
  /\ StoreIdle
  /\ CollectIdle
  /\ HashIdle
  /\ RangeIdle
  /\ HighlightIdle
  /\ RenderIdle
  /\ PreviewIdle
  /\ ParseIdle
  /\ ToggleIdle
  /\ ActiveIdle
  /\ NearestIdle
  /\ RegistryIdle

\* the same without one part
IdleExceptClick   == StoreIdle /\ CollectIdle /\ HashIdle /\ RangeIdle /\ HighlightIdle /\ RenderIdle /\ PreviewIdle /\ ParseIdle /\ ToggleIdle /\ ActiveIdle /\ NearestIdle /\ RegistryIdle
IdleExceptStore   == ClickIdle /\ CollectIdle /\ HashIdle /\ RangeIdle /\ HighlightIdle /\ RenderIdle /\ PreviewIdle /\ ParseIdle /\ ToggleIdle /\ ActiveIdle /\ NearestIdle /\ RegistryIdle
IdleExceptCollect == ClickIdle /\ StoreIdle /\ HashIdle /\ RangeIdle /\ HighlightIdle /\ RenderIdle /\ PreviewIdle /\ ParseIdle /\ ToggleIdle /\ ActiveIdle /\ NearestIdle /\ RegistryIdle
IdleExceptHash    == ClickIdle /\ StoreIdle /\ CollectIdle /\ RangeIdle /\ HighlightIdle /\ RenderIdle /\ PreviewIdle /\ ParseIdle /\ ToggleIdle /\ ActiveIdle /\ NearestIdle /\ RegistryIdle
IdleExceptRange   == ClickIdle /\ StoreIdle /\ CollectIdle /\ HashIdle /\ HighlightIdle /\ RenderIdle /\ PreviewIdle /\ ParseIdle /\ ToggleIdle /\ ActiveIdle /\ NearestIdle /\ RegistryIdle
IdleExceptHighlight == ClickIdle /\ StoreIdle /\ CollectIdle /\ HashIdle /\ RangeIdle /\ RenderIdle /\ PreviewIdle /\ ParseIdle /\ ToggleIdle /\ ActiveIdle /\ NearestIdle /\ RegistryIdle
IdleExceptRender == ClickIdle /\ StoreIdle /\ CollectIdle /\ HashIdle /\ RangeIdle /\ HighlightIdle /\ PreviewIdle /\ ParseIdle /\ ToggleIdle /\ ActiveIdle /\ NearestIdle /\ RegistryIdle
IdleExceptPreview == ClickIdle /\ StoreIdle /\ CollectIdle /\ HashIdle /\ RangeIdle /\ HighlightIdle /\ RenderIdle /\ ParseIdle /\ ToggleIdle /\ ActiveIdle /\ NearestIdle /\ RegistryIdle
IdleExceptParse == ClickIdle /\ StoreIdle /\ CollectIdle /\ HashIdle /\ RangeIdle /\ HighlightIdle /\ RenderIdle /\ PreviewIdle /\ ToggleIdle /\ ActiveIdle /\ NearestIdle /\ RegistryIdle
IdleExceptToggle == ClickIdle /\ StoreIdle /\ CollectIdle /\ HashIdle /\ RangeIdle /\ HighlightIdle /\ RenderIdle /\ PreviewIdle /\ ParseIdle /\ ActiveIdle /\ NearestIdle /\ RegistryIdle
IdleExceptActive == ClickIdle /\ StoreIdle /\ CollectIdle /\ HashIdle /\ RangeIdle /\ HighlightIdle /\ RenderIdle /\ PreviewIdle /\ ParseIdle /\ ToggleIdle /\ NearestIdle /\ RegistryIdle
IdleExceptNearest == ClickIdle /\ StoreIdle /\ CollectIdle /\ HashIdle /\ RangeIdle /\ HighlightIdle /\ RenderIdle /\ PreviewIdle /\ ParseIdle /\ ToggleIdle /\ ActiveIdle /\ RegistryIdle
IdleExceptRegistry == ClickIdle /\ StoreIdle /\ CollectIdle /\ HashIdle /\ RangeIdle /\ HighlightIdle /\ RenderIdle /\ PreviewIdle /\ ParseIdle /\ ToggleIdle /\ ActiveIdle /\ NearestIdle

\* the decoration engine, its cursor tracker, its parsers and its
\* exceptions at rest
EngineIdle ==
  /\ docText = <<>>
  /\ selection = Caret(0)
  /\ livePreview = TRUE
  /\ editState = {}
  /\ decos = <<>>
  /\ nextInst = 0
  /\ owed = <<>>
  /\ pass = NoPass
  /\ prevPass = NoPass
  /\ passRan = FALSE
  /\ txCount = 0
  /\ editCount = 0
  /\ cq = NoQuery
  /\ pq = NoProps
  /\ tq = NoTabs
  /\ fault = NoFault

\* the editor state after a transaction whose updatePreviews call returned r
CommitEditor(r, newDoc, newSel, newLive, newEdit, docChanged) ==
  /\ docText' = newDoc
  /\ selection' = newSel
  /\ livePreview' = newLive
  /\ editState' = newEdit
  /\ decos' = r.decos
  /\ nextInst' = r.next
  /\ passRan' = r.ran
  /\ pass' = IF r.ran
             THEN [n |-> pass.n + 1, base |-> nextInst, docText |-> newDoc,
                   selection |-> newSel, decos |-> r.decos,
                   log |-> Annotate(r.log, owed)]
             ELSE pass
  /\ prevPass' = IF r.ran THEN pass ELSE prevPass
  /\ owed' = IF r.ran THEN NewOwed(r.log, owed) ELSE owed
  /\ txCount' = txCount + 1
  /\ editCount' = IF docChanged THEN editCount + 1 ELSE editCount

\* the state after a transaction whose updatePreviews call returned r
Commit(r, newDoc, newSel, newLive, newEdit, docChanged) ==
  /\ CommitEditor(r, newDoc, newSel, newLive, newEdit, docChanged)
  /\ UNCHANGED <<cq, pq, tq, fault>>
  /\ UNCHANGED laterVars

Transaction(newDoc, newSel, newLive, newEdit, docChanged, effects, selectionSet) ==
  Commit(updatePreviews(decos, newDoc, newSel, newEdit, newLive, docChanged,
                        effects, selectionSet, nextInst),
         newDoc, newSel, newLive, newEdit, docChanged)

Init ==
  /\ docText \in InitDocs
  /\ selection = Caret(0)
  /\ livePreview = TRUE
  /\ editState = {}
  /\ decos = <<>>
  /\ nextInst = 0
  /\ owed = <<>>
  /\ pass = NoPass
  /\ prevPass = NoPass
  /\ passRan = FALSE
  /\ txCount = 0
  /\ editCount = 0
  /\ cq = NoQuery
  /\ pq = NoProps
  /\ tq = NoTabs
  /\ fault = NoFault
  /\ LaterIdle

\* the user moves the caret or selects text
SelectionTx ==
  /\ txCount < MaxTx
  /\ \E sel \in Selections(docText) :
       Transaction(docText, sel, livePreview, editState, FALSE, 0, TRUE)

\* a document change; the caret is left at the change or at the end of the
\* document
EditTx ==
  /\ txCount < MaxTx
  /\ editCount < MaxEdits
  /\ \E e \in Edits(docText) :
       \E p \in {e.caret, Len(e.text)} :
         Transaction(e.text, Caret(p), livePreview, editState, TRUE, 0, TRUE)

\* a transaction that only carries an effect of another extension
EffectTx ==
  /\ txCount < MaxTx
  /\ Transaction(docText, selection, livePreview, editState, FALSE, 1, FALSE)

\* a transaction with no change, no effect and no selection
EmptyTx ==
  /\ txCount < MaxTx
  /\ Transaction(docText, selection, livePreview, editState, FALSE, 0, FALSE)

\* the host switches between live preview and source mode
LivePreviewTx ==
  /\ txCount < MaxTx
  /\ Transaction(docText, selection, ~livePreview, editState, FALSE, 1, FALSE)

Next == SelectionTx \/ EditTx \/ EffectTx \/ EmptyTx \/ LivePreviewTx

Spec == Init /\ [][Next]_vars

(***************************************************************************)
(* The cursor tracker alone: one call of checkCursorInRegion on a region   *)
(* and a selection of up to two ranges.                                    *)
(***************************************************************************)
Offsets == 0..MaxOffset

Ranges == {r \in [from : Offsets, to : Offsets] : r.from <= r.to}

RangeSeqs == {<<>>} \cup {<<r>> : r \in Ranges}
             \cup {<<r1, r2>> : <<r1, r2>> \in Ranges \X Ranges}

InitCursor ==
  /\ docText = <<>>
  /\ selection = Caret(0)
  /\ livePreview = TRUE
  /\ editState = {}
  /\ decos = <<>>
  /\ nextInst = 0
  /\ owed = <<>>
  /\ pass = NoPass
  /\ prevPass = NoPass
  /\ passRan = FALSE
  /\ txCount = 0
  /\ editCount = 0
  /\ cq = NoQuery
  /\ pq = NoProps
  /\ tq = NoTabs
  /\ fault = NoFault
  /\ LaterIdle

CursorQuery ==
  /\ ~cq.asked
  /\ \E s \in Offsets, e \in Offsets, ranges \in RangeSeqs :
       /\ s <= e
       /\ cq' = [startIndex |-> s, endIndex |-> e,
                 carets |-> getCursorLocations(ranges), ranges |-> ranges,
                 asked |-> TRUE,
                 result |-> checkCursorInRegion(s, e, getCursorLocations(ranges),
                                                ranges)]
  /\ UNCHANGED <<editorVars, pq, tq, fault>>
  /\ UNCHANGED laterVars

NextCursor == CursorQuery

SpecCursor == InitCursor /\ [][NextCursor]_vars

(***************************************************************************)
(* The scanner alone: the first decoration pass over a document made of up *)
(* to MaxScanLines lines, with the caret at either end of the document.    *)
(***************************************************************************)
ScanLines == {TabsLine, EndLine, TextA, SeeLine, NoteLine, EmptyLine}

ScanDocs ==
  {Join(ls) : ls \in UNION {[1..n -> ScanLines] : n \in 1..MaxScanLines}}

InitScan ==
  /\ docText \in ScanDocs
  /\ selection = Caret(0)
  /\ livePreview = TRUE
  /\ editState = {}
  /\ decos = <<>>
  /\ nextInst = 0
  /\ owed = <<>>
  /\ pass = NoPass
  /\ prevPass = NoPass
  /\ passRan = FALSE
  /\ txCount = 0
  /\ editCount = 0
  /\ cq = NoQuery
  /\ pq = NoProps
  /\ tq = NoTabs
  /\ fault = NoFault
  /\ LaterIdle

ScanTx ==
  /\ txCount = 0
  /\ \E p \in {0, Len(docText)} :
       Transaction(docText, Caret(p), livePreview, editState, FALSE, 0, TRUE)

NextScan == ScanTx

SpecScan == InitScan /\ [][NextScan]_vars

(***************************************************************************)
(* The property parser alone: one call of parseBlockProperties on a start  *)
(* line `::tabs(...)` whose property string is made of up to MaxTokens     *)
(* tokens separated by a space or a comma.                                 *)
(***************************************************************************)
\* a token of a property string: its text, what kind of token the grammar
\* of property strings takes it for, and the key and value it states
Token(text, kind, key, value) ==
  [text |-> text, kind |-> kind, key |-> key, value |-> value]

PropTokens ==
  { Token(<<97>>, "bare", <<97>>, <<>>),                              \* a
    Token(<<98>>, "bare", <<98>>, <<>>),                              \* b
    Token(<<97, 61, 34, 120, 34>>, "quoted", <<97>>, <<120>>),        \* a="x"
    Token(<<98, 61, 34, 34>>, "quoted", <<98>>, <<>>),                \* b=""
    Token(<<97, 61, 110, 111>>, "other", <<>>, <<>>),                 \* a=no
    Token(<<35>>, "other", <<>>, <<>>) }                              \* #

Separators == {<<32>>, <<44>>}

\* the tokens, each but the first behind its separator
RECURSIVE PropString(_, _)
PropString(tokens, seps) ==
  IF tokens = <<>> THEN <<>>
  ELSE IF Len(tokens) = 1 THEN tokens[1].text
  ELSE PropString(SubSeq(tokens, 1, Len(tokens) - 1), seps)
       \o seps[Len(tokens)] \o tokens[Len(tokens)].text

\* the start line `::tabs(<propString>)`
PropsLine(propString) == startTag \o <<40>> \o propString \o <<41>>

InitProps ==
  /\ docText = <<>>
  /\ selection = Caret(0)
  /\ livePreview = TRUE
  /\ editState = {}
  /\ decos = <<>>
  /\ nextInst = 0
  /\ owed = <<>>
  /\ pass = NoPass
  /\ prevPass = NoPass
  /\ passRan = FALSE
  /\ txCount = 0
  /\ editCount = 0
  /\ cq = NoQuery
  /\ pq = NoProps
  /\ tq = NoTabs
  /\ fault = NoFault
  /\ LaterIdle

PropsQuery ==
  /\ ~pq.asked
  /\ \E n \in 0..MaxTokens :
       \E tokens \in [1..n -> PropTokens], seps \in [1..n -> Separators] :
         pq' = [asked  |-> TRUE,
                tokens |-> tokens,
                line   |-> PropsLine(PropString(tokens, seps)),
                result |-> parseBlockProperties(
                             PropsLine(PropString(tokens, seps)), startTag)]
  /\ UNCHANGED <<editorVars, cq, tq, fault>>
  /\ UNCHANGED laterVars

NextProps == PropsQuery

SpecProps == InitProps /\ [][NextProps]_vars

(***************************************************************************)
(* The tabs widget alone: one construction of a TabWidget for the text of  *)
(* a region made of a start line, up to MaxTabLines lines and a closing    *)
(* line.                                                                   *)
(***************************************************************************)
IconKey == <<105, 99, 111, 110>>                                  \* "icon"

\* a line of a tabs block: its text, whether it is a `--tab` line, and for a
\* `--tab` line the text behind the marker and its parenthesised properties
\* (title), that text without its markdown markers (clean) and the
\* properties in the parentheses (props)
BlockLine(text, isTab, title, clean, props) ==
  [text |-> text, isTab |-> isTab, title |-> title, clean |-> clean, props |-> props]

TabBodyLines ==
  { \* --tab First
    BlockLine(<<45, 45, 116, 97, 98, 32, 70, 105, 114, 115, 116>>, TRUE,
              <<70, 105, 114, 115, 116>>, <<70, 105, 114, 115, 116>>, <<>>),
    \* --tab(icon="i") Second
    BlockLine(<<45, 45, 116, 97, 98, 40, 105, 99, 111, 110, 61, 34, 105, 34, 41, 32,
                83, 101, 99, 111, 110, 100>>, TRUE,
              <<83, 101, 99, 111, 110, 100>>, <<83, 101, 99, 111, 110, 100>>,
              IconKey :> StringValue(<<105>>)),
    \* Hello
    BlockLine(<<72, 101, 108, 108, 111>>, FALSE, <<>>, <<>>, <<>>),
    \* --tab
    BlockLine(TabMarker, TRUE, <<>>, <<>>, <<>>),
    \* an indented `--tab *B*`
    BlockLine(<<32, 32, 45, 45, 116, 97, 98, 32, 42, 66, 42>>, TRUE,
              <<42, 66, 42>>, <<66>>, <<>>),
    \* an empty line
    BlockLine(<<>>, FALSE, <<>>, <<>>, <<>>) }

\* a start line or a closing line: its text, and as rest the line that
\* remains of it when the start tag with its properties, or the `::`, is
\* taken away (none when nothing remains)
EdgeLine(text, rest) == [text |-> text, rest |-> rest]

TabOpenLines ==
  { EdgeLine(startTag, <<>>),                                     \* ::tabs
    EdgeLine(startTag \o <<40, 97, 41>>, <<>>),                   \* ::tabs(a)
    \* ::tabs --tab First
    EdgeLine(startTag \o <<32, 45, 45, 116, 97, 98, 32, 70, 105, 114, 115, 116>>,
             <<BlockLine(<<32, 45, 45, 116, 97, 98, 32, 70, 105, 114, 115, 116>>, TRUE,
                         <<70, 105, 114, 115, 116>>, <<70, 105, 114, 115, 116>>, <<>>)>>) }

TabCloseLines ==
  { EdgeLine(EndLine, <<>>),                                      \* "::"
    EdgeLine(<<32>> \o EndLine,                                   \* " ::"
             <<BlockLine(<<32>>, FALSE, <<>>, <<>>, <<>>)>>) }

\* the active tab index kept in localStorage, -1 for none
StoredTabs == {-1, 1}

\* the text of the region
BlockText(open, body, close) ==
  Join(<<open>> \o [i \in 1..Len(body) |-> body[i].text] \o <<close>>)

InitTabs ==
  /\ docText = <<>>
  /\ selection = Caret(0)
  /\ livePreview = TRUE
  /\ editState = {}
  /\ decos = <<>>
  /\ nextInst = 0
  /\ owed = <<>>
  /\ pass = NoPass
  /\ prevPass = NoPass
  /\ passRan = FALSE
  /\ txCount = 0
  /\ editCount = 0
  /\ cq = NoQuery
  /\ pq = NoProps
  /\ tq = NoTabs
  /\ fault = NoFault
  /\ LaterIdle

\* new TabWidget(content, id, isEditing, app)
TabsQuery ==
  /\ ~tq.asked
  /\ \E n \in 0..MaxTabLines :
       \E open \in TabOpenLines, body \in [1..n -> TabBodyLines],
          close \in TabCloseLines, stored \in StoredTabs :
         tq' = [asked      |-> TRUE,
                open       |-> open,
                body       |-> body,
                close      |-> close,
                content    |-> BlockText(open.text, body, close.text),
                tabs       |-> parseTabs(BlockText(open.text, body, close.text)),
                properties |-> parseTabBlockProperties(
                                 BlockText(open.text, body, close.text)),
                activeTab  |-> loadActiveTab(
                                 stored,
                                 parseTabs(BlockText(open.text, body, close.text)))]
  /\ UNCHANGED <<editorVars, cq, pq, fault>>
  /\ UNCHANGED laterVars

NextTabs == TabsQuery

SpecTabs == InitTabs /\ [][NextTabs]_vars

(***************************************************************************)
(* Exceptions.  updatePreviews calls createWidget once for every region it *)
(* processes, to read the constructor of the widget class, and once more   *)
(* in getOrCreateWidget when no instance is reused; neither call, nor the  *)
(* loop around them, nor the update function of the preview field stands   *)
(* inside a try block.  An exception thrown by a constructor therefore     *)
(* leaves updatePreviews and the update of the field: the editor state of  *)
(* the transaction is never built and the state before it stays.           *)
(***************************************************************************)
\* the pass r reaches a widget construction
constructsWidget(r) == r.ran /\ \E i \in 1..Len(r.log) : r.log[i].accepted

\* a transaction in whose pass the widget constructor throws
TransactionThrows(newDoc, newSel, newLive, newEdit, docChanged, effects, selectionSet) ==
  /\ constructsWidget(updatePreviews(decos, newDoc, newSel, newEdit, newLive,
                                     docChanged, effects, selectionSet, nextInst))
  /\ fault' = [threw |-> TRUE, at |-> txCount + 1, escaped |-> TRUE,
               oldState |-> decos]
  /\ txCount' = txCount + 1
  /\ UNCHANGED <<docText, selection, livePreview, editState, decos, nextInst,
                 passRan, pass, prevPass, owed, editCount, cq, pq, tq>>
  /\ UNCHANGED laterVars

InitFault ==
  /\ docText \in InitDocs
  /\ selection = Caret(0)
  /\ livePreview = TRUE
  /\ editState = {}
  /\ decos = <<>>
  /\ nextInst = 0
  /\ owed = <<>>
  /\ pass = NoPass
  /\ prevPass = NoPass
  /\ passRan = FALSE
  /\ txCount = 0
  /\ editCount = 0
  /\ cq = NoQuery
  /\ pq = NoProps
  /\ tq = NoTabs
  /\ fault = NoFault
  /\ LaterIdle

\* the caret moves and a widget constructor throws in the pass
SelectionThrows ==
  /\ txCount < MaxTx
  /\ \E sel \in Selections(docText) :
       TransactionThrows(docText, sel, livePreview, editState, FALSE, 0, TRUE)

\* the document changes and a widget constructor throws in the pass
EditThrows ==
  /\ txCount < MaxTx
  /\ editCount < MaxEdits
  /\ \E e \in Edits(docText) :
       \E p \in {e.caret, Len(e.text)} :
         TransactionThrows(e.text, Caret(p), livePreview, editState, TRUE, 0, TRUE)

NextFault == SelectionTx \/ EditTx \/ SelectionThrows \/ EditThrows

SpecFault == InitFault /\ [][NextFault]_vars

(***************************************************************************)
(* The edit button.  createEditButton calls the handler of the widget on   *)
(* mousedown; the handler is what the widget class passes in               *)
(* createPreviewView.  The preview extensions of the widget classes are    *)
(* the base extension with another start tag; the documents here use the   *)
(* tag of the tabs extension for all of them.                              *)
(***************************************************************************)
WidgetKinds == {"TabWidget", "FileTreeWidget", "GalleryWidget"}

TabLineA == <<45, 45, 116, 97, 98, 32, 65>>                     \* "--tab A"
TabLineB == <<45, 45, 116, 97, 98, 32, 66>>                     \* "--tab B"

\* the documents of a session in which the edit button is used
ClickDocs ==
  { Join(<<TabsLine, TabLineA, TextA, TabLineB, TextB, EndLine, EmptyLine>>),
    Join(<<TabsLine, EndLine, EmptyLine, TabsLine, TextA, EndLine>>) }

\* one iteration of the loop of the handler of TabWidget, searchPos being
\* the result of content.indexOf('--tab', searchPos) and lineEnd that of
\* content.indexOf('\n', searchPos): the new searchPos and tabPos
tabPosStep(searchPos, lineEnd, widgetPos, tabPos) ==
  IF searchPos # -1
  THEN [searchPos |-> lineEnd + 1,
        tabPos    |-> IF lineEnd # -1 THEN widgetPos + lineEnd + 1 ELSE tabPos]
  ELSE [searchPos |-> searchPos, tabPos |-> tabPos]

\* the loop `for (let i = 0; i <= this.activeTab; i++)`; indexOf takes a
\* negative start as 0
RECURSIVE tabPosLoop(_, _, _, _, _, _)
tabPosLoop(content, widgetPos, activeTab, i, searchPos, tabPos) ==
  IF i > activeTab THEN tabPos
  ELSE tabPosLoop(
         content, widgetPos, activeTab, i + 1,
         tabPosStep(IndexOf(content, TabMarker, Max(searchPos, 0)),
                    IF IndexOf(content, TabMarker, Max(searchPos, 0)) = -1 THEN -1
                    ELSE IndexOf(content, <<NL>>,
                                 IndexOf(content, TabMarker, Max(searchPos, 0))),
                    widgetPos, tabPos).searchPos,
         tabPosStep(IndexOf(content, TabMarker, Max(searchPos, 0)),
                    IF IndexOf(content, TabMarker, Max(searchPos, 0)) = -1 THEN -1
                    ELSE IndexOf(content, <<NL>>,
                                 IndexOf(content, TabMarker, Max(searchPos, 0))),
                    widgetPos, tabPos).tabPos)

\* what the handler of the edit button dispatches: nothing, a selection, or
\* the effect that marks the widget id as edited
editHandler(kind, widget, widgetPos, activeTab) ==
  IF kind = "TabWidget"
  THEN [dispatched |-> TRUE, selects |-> TRUE, toggles |-> FALSE,
        anchor |-> tabPosLoop(widget.content, widgetPos, activeTab, 0, 0, widgetPos)]
  ELSE IF kind = "GalleryWidget"
  THEN [dispatched |-> TRUE, selects |-> FALSE, toggles |-> TRUE, anchor |-> 0]
  ELSE [dispatched |-> FALSE, selects |-> FALSE, toggles |-> FALSE, anchor |-> 0]

\* the tabs the user can have activated in a widget
ActiveTabs(widget) == 0..Max(Len(parseTabs(widget.content)) - 1, 0)

InitClick ==
  /\ docText \in ClickDocs
  /\ selection = Caret(0)
  /\ livePreview = TRUE
  /\ editState = {}
  /\ decos = <<>>
  /\ nextInst = 0
  /\ owed = <<>>
  /\ pass = NoPass
  /\ prevPass = NoPass
  /\ passRan = FALSE
  /\ txCount = 0
  /\ editCount = 0
  /\ cq = NoQuery
  /\ pq = NoProps
  /\ tq = NoTabs
  /\ fault = NoFault
  /\ ec \in {[NoClick EXCEPT !.kind = k] : k \in WidgetKinds}
  /\ IdleExceptClick

\* the transaction the handler h dispatches, if any
ClickEffect(h, id) ==
  IF h.dispatched
  THEN CommitEditor(
         updatePreviews(decos, docText,
                        IF h.selects THEN Caret(h.anchor) ELSE selection,
                        IF h.toggles THEN editState \cup {id} ELSE editState,
                        livePreview, FALSE, IF h.toggles THEN 1 ELSE 0, h.selects,
                        nextInst),
         docText,
         IF h.selects THEN Caret(h.anchor) ELSE selection,
         livePreview,
         IF h.toggles THEN editState \cup {id} ELSE editState,
         FALSE)
  ELSE UNCHANGED editorVars

\* the user presses the edit button of a rendered widget
EditClick ==
  /\ txCount < MaxTx
  /\ livePreview
  /\ ~ec.clicked
  /\ \E i \in 1..Len(decos) :
       \E a \in ActiveTabs(decos[i].widget) :
         /\ ClickEffect(editHandler(ec.kind, decos[i].widget, decos[i].from, a),
                        decos[i].widget.id)
         /\ ec' = [clicked |-> TRUE, kind |-> ec.kind,
                   startIndex |-> decos[i].from, endIndex |-> decos[i].to,
                   dispatched |->
                     editHandler(ec.kind, decos[i].widget, decos[i].from, a).dispatched,
                   at |-> txCount']
  /\ UNCHANGED <<cq, pq, tq, fault>>
  /\ UNCHANGED exceptClick

NextClick == SelectionTx \/ EditClick

SpecClick == InitClick /\ [][NextClick]_vars

(***************************************************************************)
(* localStorage.  The plugin keeps the active tab of a TabWidget under     *)
(* `tabs.<id>`, the active tab of a TabsBlockManager under                 *)
(* `ginko-tabs-<id>-active-tab` and the states of all blocks, as one JSON  *)
(* object, under `ginko-block-state`.  getItem and setItem can throw (the  *)
(* storage is denied or full); which of them does is an input of every     *)
(* operation.  Date.now() is a number of milliseconds too large for the    *)
(* integers of the checker and is kept as days and milliseconds of the day.*)
(***************************************************************************)
EXPIRY_DAYS == 30
MS_PER_DAY == 86400000          \* 24 * 60 * 60 * 1000

\* now - lastModified, as days and milliseconds
Elapsed(t, lastModified) ==
  IF t.ms >= lastModified.ms
  THEN [d |-> t.d - lastModified.d, ms |-> t.ms - lastModified.ms]
  ELSE [d |-> t.d - lastModified.d - 1, ms |-> t.ms - lastModified.ms + MS_PER_DAY]

\* variant: an entry of exactly thirty days is expired as well
expiredAtThirtyDays(t, lastModified) ==
  Elapsed(t, lastModified).d >= EXPIRY_DAYS

\* now - blockState.lastModified > EXPIRY_DAYS * MS_PER_DAY
expired(t, lastModified) ==
  \/ Elapsed(t, lastModified).d > EXPIRY_DAYS
  \/ Elapsed(t, lastModified).d = EXPIRY_DAYS /\ Elapsed(t, lastModified).ms > 0

\* n.toString() of an index n >= 0
RECURSIVE ToString10(_)
ToString10(n) ==
  IF n < 10 THEN <<48 + n>> ELSE ToString10(n \div 10) \o <<48 + (n % 10)>>

IsDigit(c) == c >= 48 /\ c <= 57

\* the value of the digits of s from offset p on, acc being the value so far
RECURSIVE DecValue(_, _, _)
DecValue(s, p, acc) ==
  IF p < Len(s) /\ IsDigit(s[p + 1])
  THEN DecValue(s, p + 1, 10 * acc + (s[p + 1] - 48))
  ELSE acc

\* parseInt(s, 10) and Number.parseInt(s): white space, a sign, digits;
\* NaN when no digit follows
parseIntAt(t, signed) ==
  IF ~(Len(t) > (IF signed THEN 1 ELSE 0)
       /\ IsDigit(t[(IF signed THEN 2 ELSE 1)]))
  THEN [nan |-> TRUE, n |-> 0]
  ELSE [nan |-> FALSE,
        n   |-> IF signed /\ t[1] = 45
                THEN 0 - DecValue(t, 1, 0)
                ELSE DecValue(t, IF signed THEN 1 ELSE 0, 0)]

parseInt(s) ==
  parseIntAt(Trim(s), Len(Trim(s)) > 0 /\ Trim(s)[1] \in {43, 45})

\* the outcome of an operation: whether a read or a write of the storage
\* failed in it, whether an exception left it, what it returned and the
\* storage it leaves
Outcome(readFailed, writeFailed, threw, result, st) ==
  [readFailed |-> readFailed, writeFailed |-> writeFailed, threw |-> threw,
   result |-> result, storage |-> st]

\* variant: the stored index is returned without the test of its range
loadActiveTabUnchecked(getFails, st, tabs) ==
  IF getFails THEN Outcome(TRUE, FALSE, FALSE, 0, st)
  ELSE IF ~st.tabWidget.present THEN Outcome(FALSE, FALSE, FALSE, 0, st)
  ELSE IF parseInt(st.tabWidget.text).nan THEN Outcome(TRUE, FALSE, FALSE, 0, st)
  ELSE Outcome(FALSE, FALSE, FALSE, parseInt(st.tabWidget.text).n, st)

\* TabWidget.loadActiveTab, tabs being the number of tabs of the widget
loadActiveTabStored(getFails, st, tabs) ==
  IF getFails THEN Outcome(TRUE, FALSE, FALSE, 0, st)
  ELSE IF ~st.tabWidget.present THEN Outcome(FALSE, FALSE, FALSE, 0, st)
  ELSE IF parseInt(st.tabWidget.text).nan THEN Outcome(TRUE, FALSE, FALSE, 0, st)
  ELSE Outcome(FALSE, FALSE, FALSE,
               IF parseInt(st.tabWidget.text).n >= 0 /\ parseInt(st.tabWidget.text).n < tabs
               THEN parseInt(st.tabWidget.text).n ELSE 0,
               st)

\* TabWidget.saveActiveTab
saveActiveTab(setFails, st, index) ==
  IF setFails THEN Outcome(FALSE, TRUE, FALSE, 0, st)
  ELSE Outcome(FALSE, FALSE, FALSE, 0,
               [st EXCEPT !.tabWidget = [present |-> TRUE, text |-> ToString10(index)]])

\* TabsBlockManager.loadActiveTabState, called by the constructor
loadActiveTabState(getFails, st) ==
  IF getFails THEN Outcome(TRUE, FALSE, TRUE, 0, st)
  ELSE IF ~st.manager.present \/ st.manager.text = <<>>
  THEN Outcome(FALSE, FALSE, FALSE, 0, st)
  ELSE IF parseInt(st.manager.text).nan THEN Outcome(TRUE, FALSE, FALSE, 0, st)
  ELSE Outcome(FALSE, FALSE, FALSE, parseInt(st.manager.text).n, st)

\* TabsBlockManager.saveActiveTabState
saveActiveTabState(setFails, st, index) ==
  IF setFails THEN Outcome(FALSE, TRUE, TRUE, 0, st)
  ELSE Outcome(FALSE, FALSE, FALSE, 0,
               [st EXCEPT !.manager = [present |-> TRUE, text |-> ToString10(index)]])

\* loadBlockStates: the object, and whether reading it failed
loadBlockStates(getFails, st) ==
  IF getFails THEN [failed |-> TRUE, states |-> <<>>]
  ELSE IF ~st.blocks.present THEN [failed |-> FALSE, states |-> <<>>]
  ELSE IF ~st.blocks.json THEN [failed |-> TRUE, states |-> <<>>]
  ELSE [failed |-> FALSE, states |-> st.blocks.value]

\* saveBlockStates: JSON.stringify(states) is set, unless setItem throws
saveBlockStates(setFails, st, states) ==
  IF setFails THEN st
  ELSE [st EXCEPT !.blocks = [present |-> TRUE, json |-> TRUE, value |-> states],
                  !.writes = st.writes + 1]

\* states[blockId] = entry
Put(states, blockId, entry) ==
  [k \in DOMAIN states \cup {blockId} |-> IF k = blockId THEN entry ELSE states[k]]

\* delete states[blockId]
Delete(states, ids) == [k \in DOMAIN states \ ids |-> states[k]]

\* getBlockState, loaded being the result of loadBlockStates
getBlockStateOf(loaded, setFails, st, t, blockId, type, defaultValue) ==
  IF blockId \in DOMAIN loaded.states /\ loaded.states[blockId].type = type
  THEN Outcome(loaded.failed, setFails, FALSE, loaded.states[blockId].state,
               saveBlockStates(
                 setFails, st,
                 Put(loaded.states, blockId,
                     [loaded.states[blockId] EXCEPT !.lastModified = t])))
  ELSE Outcome(loaded.failed, FALSE, FALSE, defaultValue, st)

getBlockState(getFails, setFails, st, t, blockId, type, defaultValue) ==
  getBlockStateOf(loadBlockStates(getFails, st), setFails, st, t, blockId, type,
                  defaultValue)

\* setBlockState
setBlockState(getFails, setFails, st, t, blockId, type, state) ==
  Outcome(loadBlockStates(getFails, st).failed, setFails, FALSE, state,
          saveBlockStates(
            setFails, st,
            Put(loadBlockStates(getFails, st).states, blockId,
                [type |-> type, state |-> state, lastModified |-> t])))

\* cleanupExpiredStates, loaded being the result of loadBlockStates
cleanupOf(loaded, setFails, st, t) ==
  IF \E id \in DOMAIN loaded.states : expired(t, loaded.states[id].lastModified)
  THEN Outcome(loaded.failed, setFails, FALSE, 0,
               saveBlockStates(
                 setFails, st,
                 Delete(loaded.states,
                        {id \in DOMAIN loaded.states :
                           expired(t, loaded.states[id].lastModified)})))
  ELSE Outcome(loaded.failed, FALSE, FALSE, 0, st)

cleanupExpiredStates(getFails, setFails, st, t) ==
  cleanupOf(loadBlockStates(getFails, st), setFails, st, t)

\* the texts found under the key of an active tab: "1", "7", "x"
StoredTexts == {<<49>>, <<55>>, <<120>>}

StoredItems == {NoItem} \cup {[present |-> TRUE, text |-> x] : x \in StoredTexts}

BlockIds == {"b1", "b2"}

\* the entries found in the object of the block states
StoredEntries ==
  { [type |-> "callout", state |-> TRUE, lastModified |-> Epoch],
    [type |-> "callout", state |-> TRUE, lastModified |-> [d |-> 0, ms |-> 1]],
    [type |-> "tab", state |-> 1, lastModified |-> Epoch] }

StoredBlocks ==
  {NoJson, [present |-> TRUE, json |-> FALSE, value |-> <<>>]}
  \cup {[present |-> TRUE, json |-> TRUE, value |-> v] :
          v \in UNION {[ids -> StoredEntries] : ids \in SUBSET BlockIds}}

\* the instants at which the plugin runs
Times == {[d |-> 30, ms |-> 0], [d |-> 30, ms |-> 1], [d |-> 31, ms |-> 0]}

NotBefore(t, u) == t.d > u.d \/ (t.d = u.d /\ t.ms >= u.ms)

InitStore ==
  /\ docText = <<>>
  /\ selection = Caret(0)
  /\ livePreview = TRUE
  /\ editState = {}
  /\ decos = <<>>
  /\ nextInst = 0
  /\ owed = <<>>
  /\ pass = NoPass
  /\ prevPass = NoPass
  /\ passRan = FALSE
  /\ txCount = 0
  /\ editCount = 0
  /\ cq = NoQuery
  /\ pq = NoProps
  /\ tq = NoTabs
  /\ fault = NoFault
  /\ IdleExceptStore
  /\ storage \in {[NoStorage EXCEPT !.tabWidget = i, !.manager = j] :
                    i \in StoredItems, j \in {NoItem, [present |-> TRUE, text |-> <<120>>]}}
                 \cup {[NoStorage EXCEPT !.blocks = b] : b \in StoredBlocks}
  /\ now = Epoch
  /\ sq = NoStoreOp

\* the operation op with outcome out was run at instant t
StoreStep(op, out, defaultValue, t) ==
  /\ sq.n < MaxStoreOps
  /\ NotBefore(t, now)
  /\ sq' = [n |-> sq.n + 1, op |-> op, readFailed |-> out.readFailed,
            writeFailed |-> out.writeFailed, threw |-> out.threw,
            result |-> out.result, default |-> defaultValue, before |-> storage]
  /\ storage' = out.storage
  /\ now' = t
  /\ UNCHANGED <<editorVars, cq, pq, tq, fault>>
  /\ UNCHANGED exceptStore

\* a TabWidget of two tabs is constructed
TabWidgetLoads ==
  \E getFails \in BOOLEAN, t \in Times :
    StoreStep("TabWidget.loadActiveTab", loadActiveTabStored(getFails, storage, 2), 0, t)

\* a tab button of a TabWidget is pressed
TabWidgetSaves ==
  \E setFails \in BOOLEAN, index \in {0, 1}, t \in Times :
    StoreStep("TabWidget.saveActiveTab", saveActiveTab(setFails, storage, index), 0, t)

\* a TabsBlockManager is constructed
ManagerLoads ==
  \E getFails \in BOOLEAN, t \in Times :
    StoreStep("TabsBlockManager.loadActiveTabState",
              loadActiveTabState(getFails, storage), 0, t)

\* a tab of a TabsBlockManager is activated
ManagerSaves ==
  \E setFails \in BOOLEAN, index \in {0, 1}, t \in Times :
    StoreStep("TabsBlockManager.saveActiveTabState",
              saveActiveTabState(setFails, storage, index), 0, t)

\* a CalloutWidget is constructed: its collapsed state is read
CalloutLoads ==
  \E getFails \in BOOLEAN, setFails \in BOOLEAN, id \in BlockIds, t \in Times :
    StoreStep("getBlockState",
              getBlockState(getFails, setFails, storage, t, id, "callout", FALSE),
              FALSE, t)

\* a callout is collapsed or expanded
CalloutSaves ==
  \E getFails \in BOOLEAN, setFails \in BOOLEAN, id \in BlockIds, c \in BOOLEAN,
     t \in Times :
    StoreStep("setBlockState",
              setBlockState(getFails, setFails, storage, t, id, "callout", c), c, t)

\* the plugin is loaded: cleanupExpiredStates runs
Sweep ==
  \E getFails \in BOOLEAN, setFails \in BOOLEAN, t \in Times :
    StoreStep("cleanupExpiredStates",
              cleanupExpiredStates(getFails, setFails, storage, t), 0, t)

NextStore ==
  \/ TabWidgetLoads
  \/ TabWidgetSaves
  \/ ManagerLoads
  \/ ManagerSaves
  \/ CalloutLoads
  \/ CalloutSaves
  \/ Sweep

SpecStore == InitStore /\ [][NextStore]_vars

(***************************************************************************)
(* The static-HTML tabs pipeline (tabsProcessor).  The renderer hands the  *)
(* processor one fragment at a time; all fragments come from one source    *)
(* path.  A collection is an entry of the Map tabsCollections, kept here   *)
(* in insertion order; its timer is the handle in processingTimeout.  The  *)
(* clock advances in steps of TickMs; a timer fires no earlier than it is  *)
(* due.                                                                    *)
(***************************************************************************)
DebounceMs == 50
TickMs == 25

NoTimer == [set |-> FALSE, due |-> 0]

\* tabsCollections.set(collectionId, {elements: [], content: [], id, processed: false})
NewCollection(id) ==
  [id |-> id, elements |-> 0, started |-> FALSE, connected |-> FALSE,
   processed |-> FALSE, timer |-> NoTimer, lastArrival |-> 0]

\* the id of the source path itself, and the ids made for `::tabs` fragments
SourcePathId == 0

\* the index in the Map of the collection a fragment that does not hold
\* `::tabs` goes to: the last key, or a new entry under the source path
\* (index 0 when the Map has none)
TargetOf(map) == Len(map)

\* the Map with the entry of the fragment at its end when it is new
WithTarget(map) == IF Len(map) = 0 THEN <<NewCollection(SourcePathId)>> ELSE map

\* the fragment holds `::tabs`: a new collection is made and started
onStart(map, id, clk) ==
  Append(map, [id |-> id, elements |-> 1, started |-> TRUE, connected |-> TRUE,
               processed |-> FALSE, timer |-> NoTimer, lastArrival |-> clk])

\* the fragment holds `::` and not `::tabs`: the collection is closed and
\* the timer set
onEnd(map, clk) ==
  IF map[Len(map)].processed THEN map
  ELSE [map EXCEPT ![Len(map)] =
          [@ EXCEPT !.elements = @ + 1, !.processed = TRUE,
                    !.timer = [set |-> TRUE, due |-> clk + DebounceMs],
                    !.lastArrival = clk]]

\* any other fragment: added when the collection is started and open
onContent(map, clk) ==
  IF map[Len(map)].processed THEN map
  ELSE IF map[Len(map)].elements > 0 /\ map[Len(map)].started
  THEN [map EXCEPT ![Len(map)] = [@ EXCEPT !.elements = @ + 1, !.lastArrival = clk]]
  ELSE map

\* the sequence without its i-th element
Remove(seq, i) == SubSeq(seq, 1, i - 1) \o SubSeq(seq, i + 1, Len(seq))

\* the collections the cleanup interval leaves
RECURSIVE sweepStale(_)
sweepStale(map) ==
  IF map = <<>> THEN <<>>
  ELSE IF map[1].started /\ ~map[1].connected THEN sweepStale(Tail(map))
  ELSE <<map[1]>> \o sweepStale(Tail(map))

InitCollect ==
  /\ docText = <<>>
  /\ selection = Caret(0)
  /\ livePreview = TRUE
  /\ editState = {}
  /\ decos = <<>>
  /\ nextInst = 0
  /\ owed = <<>>
  /\ pass = NoPass
  /\ prevPass = NoPass
  /\ passRan = FALSE
  /\ txCount = 0
  /\ editCount = 0
  /\ cq = NoQuery
  /\ pq = NoProps
  /\ tq = NoTabs
  /\ fault = NoFault
  /\ IdleExceptCollect
  /\ tc = NoCollect

\* the renderer hands over a fragment that holds `::tabs`
StartFragment ==
  /\ tc.arrived < MaxFragments
  /\ tc' = [tc EXCEPT !.map = onStart(tc.map, tc.nextId, tc.clk),
                      !.nextId = @ + 1, !.arrived = @ + 1]
  /\ UNCHANGED <<editorVars, cq, pq, tq, fault>>
  /\ UNCHANGED exceptCollect

\* the renderer hands over a fragment that holds `::` and not `::tabs`
EndFragment ==
  /\ tc.arrived < MaxFragments
  /\ tc' = [tc EXCEPT !.map = onEnd(WithTarget(tc.map), tc.clk), !.arrived = @ + 1]
  /\ UNCHANGED <<editorVars, cq, pq, tq, fault>>
  /\ UNCHANGED exceptCollect

\* the renderer hands over a fragment that holds neither
ContentFragment ==
  /\ tc.arrived < MaxFragments
  /\ tc' = [tc EXCEPT !.map = onContent(WithTarget(tc.map), tc.clk), !.arrived = @ + 1]
  /\ UNCHANGED <<editorVars, cq, pq, tq, fault>>
  /\ UNCHANGED exceptCollect

\* the callback of the timer of a collection runs: the block is rendered if
\* the start element is connected, and the collection leaves the Map
TimerFires ==
  /\ \E i \in 1..Len(tc.map) :
       /\ tc.map[i].timer.set
       /\ tc.clk >= tc.map[i].timer.due
       /\ tc' = [tc EXCEPT
                   !.map = Remove(tc.map, i),
                   !.done = IF tc.map[i].started /\ tc.map[i].connected
                            THEN Append(@, [id |-> tc.map[i].id, at |-> tc.clk,
                                            lastArrival |-> tc.map[i].lastArrival])
                            ELSE @]
  /\ UNCHANGED <<editorVars, cq, pq, tq, fault>>
  /\ UNCHANGED exceptCollect

\* the start element of a collection leaves the document
Disconnect ==
  /\ \E i \in 1..Len(tc.map) :
       /\ tc.map[i].started /\ tc.map[i].connected
       /\ tc' = [tc EXCEPT !.map[i].connected = FALSE]
  /\ UNCHANGED <<editorVars, cq, pq, tq, fault>>
  /\ UNCHANGED exceptCollect

\* the interval that removes the collections whose start element is
\* disconnected, with their timers
StaleCleanup ==
  /\ sweepStale(tc.map) # tc.map
  /\ tc' = [tc EXCEPT !.map = sweepStale(tc.map)]
  /\ UNCHANGED <<editorVars, cq, pq, tq, fault>>
  /\ UNCHANGED exceptCollect

\* time passes
Tick ==
  /\ tc.clk < MaxTicks * TickMs
  /\ tc' = [tc EXCEPT !.clk = @ + TickMs]
  /\ UNCHANGED <<editorVars, cq, pq, tq, fault>>
  /\ UNCHANGED exceptCollect

NextCollect ==
  \/ StartFragment
  \/ EndFragment
  \/ ContentFragment
  \/ TimerFires
  \/ Disconnect
  \/ StaleCleanup
  \/ Tick

SpecCollect == InitCollect /\ [][NextCollect]_vars

(***************************************************************************)
(* hashContent alone: a session of calls, each on one of a few texts.      *)
(***************************************************************************)
HelloWorld    == <<72, 101, 108, 108, 111, 44, 32, 87, 111, 114, 108, 100, 33>>   \* "Hello, World!"
HelloUniverse == <<72, 101, 108, 108, 111, 44, 32, 85, 110, 105, 118, 101, 114, 115, 101, 33>>
                                                                \* "Hello, Universe!"

HashTexts == {<<>>, TextA, TextB, HelloWorld, HelloUniverse}

InitHash ==
  /\ EngineIdle
  /\ IdleExceptHash
  /\ hq = <<>>

HashCall ==
  /\ Len(hq) < MaxCalls
  /\ \E str \in HashTexts :
       hq' = Append(hq, [input |-> str, output |-> hashContent(str)])
  /\ UNCHANGED <<editorVars, cq, pq, tq, fault>>
  /\ UNCHANGED exceptHash

NextHash == HashCall

SpecHash == InitHash /\ [][NextHash]_vars

(***************************************************************************)
(* valueIsInRange alone.                                                   *)
(***************************************************************************)
Values == (0 - MaxValue)..MaxValue

InitRange ==
  /\ EngineIdle
  /\ IdleExceptRange
  /\ vq = NoRange

RangeQuery ==
  /\ ~vq.asked
  /\ \E value \in Values, start \in Values, end \in Values :
       vq' = [asked |-> TRUE, value |-> value, start |-> start, end |-> end,
              result |-> valueIsInRange(value, start, end)]
  /\ UNCHANGED <<editorVars, cq, pq, tq, fault>>
  /\ UNCHANGED exceptRange

NextRange == RangeQuery

SpecRange == InitRange /\ [][NextRange]_vars

(***************************************************************************)
(* The syntax highlighter: processProps on one marker line, one action per *)
(* iteration of its scanning loop.                                         *)
(***************************************************************************)
maxPropLength == 1000

WhiteSpace == {32, 9}                               \* /\s/
NameChars  == {c \in 0..127 : IsWord(c)} \cup {45}  \* /[\w-]/
PropSeparators == WhiteSpace \cup {44}              \* /[\s,]/
NotQuote   == (0..(Two16 - 1)) \ {34}

\* text.lastIndexOf(c), the 0-based index or -1
LastIndexOf(s, c) ==
  LET at == {i \in 1..Len(s) : s[i] = c}
  IN  IF at = {} THEN 0 - 1 ELSE (CHOOSE i \in at : \A j \in at : j <= i) - 1

\* text.indexOf(c), the 0-based index or -1
FirstIndexOf(s, c) ==
  LET at == {i \in 1..Len(s) : s[i] = c}
  IN  IF at = {} THEN 0 - 1 ELSE (CHOOSE i \in at : \A j \in at : i <= j) - 1

\* while (pos < s.length && <s[pos] is one of cs>) pos++
RECURSIVE SkipOver(_, _, _)
SkipOver(s, pos, cs) ==
  IF pos < Len(s) /\ s[pos + 1] \in cs THEN SkipOver(s, pos + 1, cs) ELSE pos

\* DecorationManager.add
managerAdd(manager, from, to, decoration) ==
  IF <<from, to>> \in manager.processedRanges \/ from < 0 \/ to < 0 \/ from > to
  THEN [manager EXCEPT !.errors = @ + 1]
  ELSE [manager EXCEPT !.processedRanges = @ \cup {<<from, to>>},
                       !.decorations = Append(@, [from |-> from, to |-> to, decoration |-> decoration])]

RECURSIVE managerAddAll(_, _)
managerAddAll(manager, adds) ==
  IF adds = <<>> THEN manager
  ELSE managerAddAll(managerAdd(manager, adds[1].from, adds[1].to, adds[1].decoration), Tail(adds))

Deco(base, from, to, decoration) == [from |-> base + from, to |-> base + to, decoration |-> decoration]

\* variant: one iteration of the loop without the step over a character
\* that starts no name and without the check of the position at its end
propsIterationUnguarded(content, base, startPos) ==
  LET nameStart == SkipOver(content, startPos, WhiteSpace)
      nameEnd   == SkipOver(content, nameStart, NameChars)
      afterName == SkipOver(content, nameEnd, WhiteSpace)
      isString  == afterName < Len(content) /\ content[afterName + 1] = 61
      valueStart == SkipOver(content, afterName + 1, WhiteSpace)
      quoted    == valueStart < Len(content) /\ content[valueStart + 1] = 34
      closing   == SkipOver(content, valueStart + 1, NotQuote)
      valueEnd  == IF closing < Len(content) THEN closing + 1 ELSE closing
      pos       == IF ~isString THEN afterName ELSE IF quoted THEN valueEnd ELSE valueStart
  IN  IF nameStart >= Len(content)
      THEN [pos |-> nameStart, exit |-> TRUE, adds |-> <<>>]
      ELSE [pos  |-> SkipOver(content, pos, PropSeparators),
            exit |-> FALSE,
            adds |-> IF ~isString THEN <<Deco(base, nameStart, afterName, "booleanProp")>>
                     ELSE IF quoted THEN <<Deco(base, nameStart, nameEnd, "propName"),
                                           Deco(base, afterName, afterName + 1, "propEquals"),
                                           Deco(base, valueStart, valueEnd, "propValue")>>
                     ELSE <<>>]

\* one iteration of the while loop of processProps, entered at startPos:
\* the position it leaves, whether it leaves the loop by a break, and the
\* decorations it adds (base is lineStart + propsStart + 1)
propsIteration(content, base, startPos) ==
  LET nameStart == SkipOver(content, startPos, WhiteSpace)
      nameEnd   == SkipOver(content, nameStart, NameChars)
      afterName == SkipOver(content, nameEnd, WhiteSpace)
      isString  == afterName < Len(content) /\ content[afterName + 1] = 61
      valueStart == SkipOver(content, afterName + 1, WhiteSpace)
      quoted    == valueStart < Len(content) /\ content[valueStart + 1] = 34
      closing   == SkipOver(content, valueStart + 1, NotQuote)
      valueEnd  == IF closing < Len(content) THEN closing + 1 ELSE closing
      pos       == IF ~isString THEN afterName ELSE IF quoted THEN valueEnd ELSE valueStart
      last      == SkipOver(content, pos, PropSeparators)
  IN  IF nameStart >= Len(content)
      THEN [pos |-> nameStart, exit |-> TRUE, adds |-> <<>>]
      ELSE IF nameEnd = nameStart
      THEN [pos |-> nameStart + 1, exit |-> FALSE, adds |-> <<>>]
      ELSE [pos  |-> last,
            exit |-> last = startPos,
            adds |-> IF ~isString THEN <<Deco(base, nameStart, afterName, "booleanProp")>>
                     ELSE IF quoted THEN <<Deco(base, nameStart, nameEnd, "propName"),
                                           Deco(base, afterName, afterName + 1, "propEquals"),
                                           Deco(base, valueStart, valueEnd, "propValue")>>
                     ELSE <<>>]

PropChars == {32, 97, 45, 61, 34, 44, 33, 41}   \* space a - = " , ! )

RECURSIVE PropTexts(_)
PropTexts(n) ==
  IF n = 0 THEN {<<>>}
  ELSE PropTexts(n - 1) \cup {Append(t, c) : t \in {u \in PropTexts(n - 1) : Len(u) = n - 1}, c \in PropChars}

\* marker lines: a middle marker, with or without a parenthesised part
MarkerLines ==
  {<<45, 45, 97>>} \cup {<<45, 45, 97, 40>> \o t \o <<41>> : t \in PropTexts(MaxPropsLen)}

InitHighlight ==
  /\ EngineIdle
  /\ IdleExceptHighlight
  /\ hl = NoHighlight

\* processProps up to the first test of the loop condition
HighlightStart ==
  /\ ~hl.started
  /\ \E text \in MarkerLines, lineStart \in {0} :
       LET propsStart == FirstIndexOf(text, 40)
           propsEnd   == LastIndexOf(text, 41)
           propsContent == Slice(text, propsStart + 1, propsEnd)
       IN  hl' = IF propsStart = 0 - 1 \/ propsEnd = 0 - 1 \/ propsEnd <= propsStart
                 THEN [NoHighlight EXCEPT !.started = TRUE, !.text = text]
                 ELSE IF Len(propsContent) > maxPropLength
                 THEN [NoHighlight EXCEPT !.started = TRUE, !.text = text, !.manager.errors = 1]
                 ELSE [started |-> TRUE,
                       running |-> 0 < Len(propsContent),
                       text |-> text,
                       propsStart |-> lineStart + propsStart,
                       propsContent |-> propsContent,
                       pos |-> 0,
                       startPos |-> 0,
                       iterations |-> 0,
                       manager |-> [managerAdd(NewManager, lineStart + propsStart, lineStart + propsEnd + 1, "propsContainer")
                                      EXCEPT !.inProps = 0 < Len(propsContent)]]
  /\ UNCHANGED <<editorVars, cq, pq, tq, fault>>
  /\ UNCHANGED exceptHighlight

\* one iteration of the loop, the loop condition after it, and the finally
\* block when the loop is left
HighlightIteration ==
  /\ hl.running
  /\ LET r == propsIteration(hl.propsContent, hl.propsStart + 1, hl.pos)
         goesOn == ~r.exit /\ r.pos < Len(hl.propsContent)
     IN  hl' = [hl EXCEPT !.pos = r.pos,
                          !.startPos = hl.pos,
                          !.iterations = @ + 1,
                          !.running = goesOn,
                          !.manager = [managerAddAll(@, r.adds) EXCEPT !.inProps = goesOn]]
  /\ UNCHANGED <<editorVars, cq, pq, tq, fault>>
  /\ UNCHANGED exceptHighlight

NextHighlight == HighlightStart \/ HighlightIteration

SpecHighlight == InitHighlight /\ [][NextHighlight]_vars

(***************************************************************************)
(* TabsBlockManager (reading view): elements come and go, every change     *)
(* invokes render(), and render() is suspended while an icon or the        *)
(* Markdown renderer is awaited.  A DOM node is named by the invocation    *)
(* that created it and its class.                                          *)
(***************************************************************************)
DefinitionLine(title, icon) == [kind |-> "definition", title |-> title, icon |-> icon]
ContentLine(text)           == [kind |-> "content", title |-> text, icon |-> FALSE]
TabsEndLine                 == [kind |-> "end", title |-> "", icon |-> FALSE]

\* the elements Obsidian hands to the post processor for one tabs block, in
\* document order
BlockElements ==
  << <<DefinitionLine("A", TRUE), ContentLine("a")>>,
     <<DefinitionLine("B", FALSE)>>,
     <<ContentLine("b")>>,
     <<TabsEndLine>> >>

NoCurrentTab == [open |-> FALSE, title |-> "", icon |-> FALSE, contentLines |-> <<>>]

Finished(structuredTabs, current) ==
  IF current.open
  THEN Append(structuredTabs, [title |-> current.title, icon |-> current.icon, contentLines |-> current.contentLines])
  ELSE structuredTabs

RECURSIVE structureLines(_, _, _)
structureLines(lines, structuredTabs, current) ==
  IF lines = <<>> THEN Finished(structuredTabs, current)
  ELSE IF Head(lines).kind = "definition"
  THEN structureLines(Tail(lines), Finished(structuredTabs, current),
                      [open |-> TRUE, title |-> Head(lines).title, icon |-> Head(lines).icon, contentLines |-> <<>>])
  ELSE IF Head(lines).kind = "end" THEN Finished(structuredTabs, current)
  ELSE structureLines(Tail(lines), structuredTabs,
                      IF current.open THEN [current EXCEPT !.contentLines = Append(@, Head(lines).title)] ELSE current)

RECURSIVE linesOfElements(_)
linesOfElements(elements) ==
  IF elements = <<>> THEN <<>> ELSE Head(elements).linesOfElement \o linesOfElements(Tail(elements))

getStructuredTabs(elements) == structureLines(linesOfElements(elements), <<>>, NoCurrentTab)

\* this.elements.sort by the position of originalElement in the document
RECURSIVE sortByPosition(_)
sortByPosition(elements) ==
  IF elements = <<>> THEN <<>>
  ELSE LET i == CHOOSE i \in 1..Len(elements) : \A j \in 1..Len(elements) : elements[i].position <= elements[j].position
       IN  <<elements[i]>> \o sortByPosition(SubSeq(elements, 1, i - 1) \o SubSeq(elements, i + 1, Len(elements)))

addElement(elements, newElement) ==
  LET same == {i \in 1..Len(elements) : elements[i].linesOfElement = newElement.linesOfElement}
  IN  sortByPosition(IF same # {}
                     THEN [elements EXCEPT ![CHOOSE i \in same : \A j \in same : i <= j] = newElement]
                     ELSE Append(elements, newElement))

removeElement(elements, elementId) == SelectSeq(elements, LAMBDA el : el.id # elementId)

Node(call, cls) == [call |-> call, cls |-> cls]

\* variant: an `if` in place of the `while`, only the first child is removed
removeFirstChild(root) == IF root = <<>> THEN root ELSE Tail(root)

\* while (this.rootElement.firstChild) this.rootElement.removeChild(...)
RECURSIVE removeChildren(_)
removeChildren(root) == IF root = <<>> THEN root ELSE removeChildren(Tail(root))

\* the button of tab `index` as render() leaves it before any await: a tab
\* with an icon gets its text and its click handler only after the icon
NewButton(tabData, index, activeTabIndex) ==
  [active  |-> index = activeTabIndex,
   icon    |-> IF tabData.icon THEN "awaited" ELSE "none",
   span    |-> ~tabData.icon,
   onclick |-> ~tabData.icon]

NoCall == [buttons |-> <<>>, panel |-> "none"]

\* render() up to its first await or its return
renderSync(r) ==
  LET structuredTabs == getStructuredTabs(r.elements)
      call     == Len(r.calls) + 1
      outside  == r.activeTabIndex < 0 \/ r.activeTabIndex >= Len(structuredTabs)
      active   == IF outside THEN 0 ELSE r.activeTabIndex
  IN  IF structuredTabs = <<>>
      THEN [r EXCEPT !.root  = Append(removeChildren(@), Node(call, "tabs-placeholder")),
                     !.calls = Append(@, NoCall)]
      ELSE [r EXCEPT !.root  = removeChildren(@) \o <<Node(call, "ginko-tab-buttons"), Node(call, "ginko-tab-contents")>>,
                     !.activeTabIndex = active,
                     !.saved = IF outside THEN active ELSE @,
                     !.calls = Append(@, [buttons |-> [i \in 1..Len(structuredTabs) |-> NewButton(structuredTabs[i], i - 1, active)],
                                          panel   |-> IF structuredTabs[active + 1].contentLines # <<>> THEN "awaiting" ELSE "empty"])]

\* the invocations suspended at an await
Suspended(r) ==
  {c \in 1..Len(r.calls) : r.calls[c].panel = "awaiting" \/ \E i \in 1..Len(r.calls[c].buttons) : r.calls[c].buttons[i].icon = "awaited"}

\* render() invoked on r
invokeRender(r) == [renderSync(r) EXCEPT !.overlapped = @ \/ Suspended(r) # {}]

InitRender ==
  /\ EngineIdle
  /\ IdleExceptRender
  /\ rd = NoRender

\* TabsPostProcessor.process for one element of the block
ElementArrives ==
  /\ Len(rd.calls) < MaxRenders
  /\ \E p \in 1..Len(BlockElements) :
       rd' = invokeRender([rd EXCEPT
               !.elements = addElement(@, [id |-> rd.nextEl, linesOfElement |-> BlockElements[p], position |-> p]),
               !.nextEl = @ + 1])
  /\ UNCHANGED <<editorVars, cq, pq, tq, fault>>
  /\ UNCHANGED exceptRender

\* mdChild.onunload of an element handed over before
ElementUnloads ==
  /\ Len(rd.calls) < MaxRenders
  /\ \E id \in 1..(rd.nextEl - 1) :
       rd' = invokeRender([rd EXCEPT !.elements = removeElement(@, id)])
  /\ UNCHANGED <<editorVars, cq, pq, tq, fault>>
  /\ UNCHANGED exceptRender

\* button.onclick of a button that is in the document
TabClicked ==
  /\ Len(rd.calls) < MaxRenders
  /\ Len(rd.calls) > 0
  /\ \E index \in 0..(Len(rd.calls[Len(rd.calls)].buttons) - 1) :
       /\ rd.calls[Len(rd.calls)].buttons[index + 1].onclick
       /\ rd.activeTabIndex # index
       /\ rd' = invokeRender([rd EXCEPT !.activeTabIndex = index, !.saved = index])
  /\ UNCHANGED <<editorVars, cq, pq, tq, fault>>
  /\ UNCHANGED exceptRender

\* createIconElement settles: the callback of forEach goes on
IconSettles ==
  /\ \E c \in 1..Len(rd.calls) : \E i \in 1..Len(rd.calls[c].buttons) : \E outcome \in {"added", "null", "failed"} :
       /\ rd.calls[c].buttons[i].icon = "awaited"
       /\ rd' = [rd EXCEPT !.calls[c].buttons[i] = [@ EXCEPT !.icon = outcome, !.span = TRUE, !.onclick = TRUE]]
  /\ UNCHANGED <<editorVars, cq, pq, tq, fault>>
  /\ UNCHANGED exceptRender

\* MarkdownRenderer.render settles: render() goes on to its end
MarkdownSettles ==
  /\ \E c \in 1..Len(rd.calls) : \E outcome \in {"rendered", "rejected"} :
       /\ rd.calls[c].panel = "awaiting"
       /\ rd' = [rd EXCEPT !.calls[c].panel = outcome]
  /\ UNCHANGED <<editorVars, cq, pq, tq, fault>>
  /\ UNCHANGED exceptRender

NextRender == ElementArrives \/ ElementUnloads \/ TabClicked \/ IconSettles \/ MarkdownSettles

SpecRender == InitRender /\ [][NextRender]_vars

(***************************************************************************)
(* TabWidget (live preview): createPreviewView starts one Markdown render  *)
(* per tab and one button promise per tab; the renders complete in any     *)
(* order.  Tabs are named by their index, 0-based as in the code.          *)
(***************************************************************************)
\* createTabContent: the element of tab `index`
createTabContent(index, activeTab) == [tab |-> index, active |-> index = activeTab]

\* classList.toggle('active', index === activeIndex) over a NodeList
toggleActive(list, activeIndex) ==
  [k \in 1..Len(list) |-> [list[k] EXCEPT !.active = (k - 1 = activeIndex)]]

\* updateActiveTab
updateActiveTab(p, activeIndex) ==
  [p EXCEPT !.tabButtons = toggleActive(@, activeIndex),
            !.tabContents = toggleActive(@, activeIndex)]

InitPreview ==
  /\ EngineIdle
  /\ IdleExceptPreview
  /\ pv = NoPreview

\* createPreviewView up to its return
CreatePreview ==
  /\ ~pv.created
  /\ \E n \in 1..MaxTabs : \E activeTab \in 0..(n - 1) : \E icons \in SUBSET (0..(n - 1)) :
       pv' = [NoPreview EXCEPT !.created = TRUE, !.tabs = n, !.icons = icons, !.activeTab = activeTab,
                               !.rendering = 0..(n - 1), !.iconsAwaited = icons,
                               !.made = [k \in 1..n |-> createTabContent(k - 1, activeTab)]]
  /\ UNCHANGED <<editorVars, cq, pq, tq, fault>>
  /\ UNCHANGED exceptPreview

\* createIconElement settles for the button of one tab
ButtonIconSettles ==
  /\ \E index \in pv.iconsAwaited : pv' = [pv EXCEPT !.iconsAwaited = @ \ {index}]
  /\ UNCHANGED <<editorVars, cq, pq, tq, fault>>
  /\ UNCHANGED exceptPreview

\* Promise.all of the buttons is fulfilled: they are appended in tab order
ButtonsAppended ==
  /\ pv.created
  /\ pv.iconsAwaited = {}
  /\ pv.tabButtons = <<>>
  /\ pv' = [pv EXCEPT !.tabButtons = [k \in 1..pv.tabs |-> [tab |-> k - 1, active |-> k - 1 = pv.activeTab]]]
  /\ UNCHANGED <<editorVars, cq, pq, tq, fault>>
  /\ UNCHANGED exceptPreview

\* MarkdownRenderer.render of one tab is fulfilled: the element made for it
\* by createPreviewView is appended
RenderCompletes ==
  /\ \E index \in pv.rendering :
       pv' = [pv EXCEPT !.rendering = @ \ {index},
                        !.tabContents = Append(@, pv.made[index + 1])]
  /\ UNCHANGED <<editorVars, cq, pq, tq, fault>>
  /\ UNCHANGED exceptPreview

\* button.onclick
TabButtonClicked ==
  /\ pv.clicks < MaxClicks
  /\ \E k \in 1..Len(pv.tabButtons) :
       pv' = [updateActiveTab(pv, pv.tabButtons[k].tab) EXCEPT
                !.activeTab = pv.tabButtons[k].tab, !.saved = pv.tabButtons[k].tab, !.clicks = @ + 1]
  /\ UNCHANGED <<editorVars, cq, pq, tq, fault>>
  /\ UNCHANGED exceptPreview

NextPreview == CreatePreview \/ ButtonIconSettles \/ ButtonsAppended \/ RenderCompletes \/ TabButtonClicked

SpecPreview == InitPreview /\ [][NextPreview]_vars

(***************************************************************************)
(* parseContent alone, one action per iteration of its for loop, on a      *)
(* document and an occurrence of the start tag, as the scanner calls it.   *)
(* starts and ends count the start lines and the end lines read so far.    *)
(***************************************************************************)
ParseDocs ==
  {Join(ls) : ls \in UNION {[1..n -> ScanLines] : n \in 1..MaxParseLines}}

\* the offsets at which text holds the start tag
TagOffsetsIn(text) ==
  {p \in 0..(Len(text) - Len(startTag)) : SubSeq(text, p + 1, p + Len(startTag)) = startTag}

\* variant: only lines that open the extension's own tag count as start lines
parseStepOwnTag(p) ==
  LET line      == p.lines[p.i]
      lineStart == p.currentPos
      isEnd     == Trim(line) = EndLine
      isStart   == ~isEnd /\ StartsWith(Trim(line), startTag)
      closes    == isEnd /\ Len(p.stack) > 0
      returns   == closes /\ p.nestingLevel - 1 = 0 /\ p.stack[Len(p.stack)] = p.initialTag
      last      == ~returns /\ p.i = Len(p.lines)
  IN  [p EXCEPT
         !.i            = IF returns THEN @ ELSE @ + 1,
         !.currentPos   = IF returns THEN @ ELSE @ + Len(line) + 1,
         !.stack        = IF closes THEN SubSeq(@, 1, Len(@) - 1)
                          ELSE IF isStart THEN Append(@, TagName(Trim(line))) ELSE @,
         !.nestingLevel = IF closes THEN @ - 1 ELSE IF isStart THEN @ + 1 ELSE @,
         !.contentStart = IF isStart /\ @ = 0 - 1 THEN lineStart ELSE @,
         !.initialTag   = IF isStart /\ p.contentStart = 0 - 1 THEN TagName(Trim(line)) ELSE @,
         !.done         = returns \/ last,
         !.result       = IF returns
                          THEN [found   |-> TRUE,
                                content |-> Trim(Slice(p.text, p.contentStart, lineStart + Len(line))),
                                endPos  |-> lineStart + Len(line)]
                          ELSE @,
         !.starts       = IF ~isEnd /\ StartsWith(Trim(line), EndLine) THEN @ + 1 ELSE @,
         !.ends         = IF isEnd THEN @ + 1 ELSE @,
         !.passedBalance = @ \/ (isEnd /\ ~returns /\ p.ends + 1 = p.starts)]

\* one iteration of the for loop of parseContent on line p.i
parseStep(p) ==
  LET line      == p.lines[p.i]
      lineStart == p.currentPos
      isEnd     == Trim(line) = EndLine
      isStart   == ~isEnd /\ StartsWith(Trim(line), EndLine)
      closes    == isEnd /\ Len(p.stack) > 0
      returns   == closes /\ p.nestingLevel - 1 = 0 /\ p.stack[Len(p.stack)] = p.initialTag
      last      == ~returns /\ p.i = Len(p.lines)
  IN  [p EXCEPT
         !.i            = IF returns THEN @ ELSE @ + 1,
         !.currentPos   = IF returns THEN @ ELSE @ + Len(line) + 1,
         !.stack        = IF closes THEN SubSeq(@, 1, Len(@) - 1)
                          ELSE IF isStart THEN Append(@, TagName(Trim(line))) ELSE @,
         !.nestingLevel = IF closes THEN @ - 1 ELSE IF isStart THEN @ + 1 ELSE @,
         !.contentStart = IF isStart /\ @ = 0 - 1 THEN lineStart ELSE @,
         !.initialTag   = IF isStart /\ p.contentStart = 0 - 1 THEN TagName(Trim(line)) ELSE @,
         !.done         = returns \/ last,
         !.result       = IF returns
                          THEN [found   |-> TRUE,
                                content |-> Trim(Slice(p.text, p.contentStart, lineStart + Len(line))),
                                endPos  |-> lineStart + Len(line)]
                          ELSE @,
         !.starts       = IF isStart THEN @ + 1 ELSE @,
         !.ends         = IF isEnd THEN @ + 1 ELSE @,
         !.passedBalance = @ \/ (isEnd /\ ~returns /\ p.ends + 1 = p.starts)]

InitParse ==
  /\ EngineIdle
  /\ IdleExceptParse
  /\ pl = NoParseLoop

\* parseContent(text, startPos) up to its loop
ParseCall ==
  /\ ~pl.called
  /\ \E text \in ParseDocs : \E startPos \in TagOffsetsIn(text) :
       pl' = [NoParseLoop EXCEPT !.called = TRUE, !.text = text, !.startPos = startPos,
                                 !.lines = Split(SliceFrom(text, startPos)), !.i = 1,
                                 !.currentPos = startPos]
  /\ UNCHANGED <<editorVars, cq, pq, tq, fault>>
  /\ UNCHANGED exceptParse

ParseLine ==
  /\ pl.called
  /\ ~pl.done
  /\ pl' = parseStep(pl)
  /\ UNCHANGED <<editorVars, cq, pq, tq, fault>>
  /\ UNCHANGED exceptParse

NextParse == ParseCall \/ ParseLine

SpecParse == InitParse /\ [][NextParse]_vars

(***************************************************************************)
(* The edit-state field alone.  A Map is a function from the keys it holds *)
(* to their values; an effect has the type of this extension's toggle      *)
(* ("own") or another type.                                                *)
(***************************************************************************)
EditIds == {"a", "b"}

TxEffects == [type : {"own", "other"}, id : EditIds, value : BOOLEAN]

RECURSIVE EffectLists(_)
EffectLists(n) ==
  IF n = 0 THEN {<<>>}
  ELSE EffectLists(n - 1) \cup {Append(l, e) : l \in {k \in EffectLists(n - 1) : Len(k) = n - 1}, e \in TxEffects}

\* Map.set and Map.delete
MapSet(map, key, v) == [k \in DOMAIN map \cup {key} |-> IF k = key THEN v ELSE map[k]]
MapDelete(map, key) == [k \in DOMAIN map \ {key} |-> map[k]]

\* isToggleEditEffect
isToggleEditEffect(effect) == effect.type = "own"

\* variant: a toggle with false is stored under the id
applyEffectStoring(newValue, effect) ==
  IF isToggleEditEffect(effect) THEN MapSet(newValue, effect.id, effect.value) ELSE newValue

\* the body of the loop over tr.effects
applyEffect(newValue, effect) ==
  IF isToggleEditEffect(effect)
  THEN IF effect.value THEN MapSet(newValue, effect.id, TRUE) ELSE MapDelete(newValue, effect.id)
  ELSE newValue

\* update of the field: new Map(value), then the loop
RECURSIVE editStateUpdate(_, _)
editStateUpdate(value, effects) ==
  IF effects = <<>> THEN value
  ELSE editStateUpdate(applyEffect(value, Head(effects)), Tail(effects))

\* the most recent toggle of this extension per id
RECURSIVE Latest(_, _)
Latest(latest, effects) ==
  IF effects = <<>> THEN latest
  ELSE Latest(IF Head(effects).type = "own"
              THEN [latest EXCEPT ![Head(effects).id] = IF Head(effects).value THEN "true" ELSE "false"]
              ELSE latest,
              Tail(effects))

InitToggle ==
  /\ EngineIdle
  /\ IdleExceptToggle
  /\ ef = NoToggle

\* any transaction: the field's update runs on its effects
FieldUpdate ==
  /\ ef.transactions < MaxToggleTx
  /\ \E effects \in EffectLists(MaxEffects) :
       ef' = [value |-> editStateUpdate(ef.value, effects),
              latest |-> Latest(ef.latest, effects),
              effects |-> effects,
              transactions |-> ef.transactions + 1]
  /\ UNCHANGED <<editorVars, cq, pq, tq, fault>>
  /\ UNCHANGED exceptToggle

NextToggle == FieldUpdate

SpecToggle == InitToggle /\ [][NextToggle]_vars

(***************************************************************************)
(* The active tab of a TabWidget: the constructor loads it from what the   *)
(* store holds, a click on a button sets and saves it, and the widget of   *)
(* the region is constructed again by later passes.                        *)
(***************************************************************************)
\* texts found under the widget's key, with the number Number.parseInt
\* reads from them
StoredCases ==
  { [text |-> <<49>>,     nan |-> FALSE, n |-> 1],       \* "1"
    [text |-> <<50>>,     nan |-> FALSE, n |-> 2],       \* "2"
    [text |-> <<55>>,     nan |-> FALSE, n |-> 7],       \* "7"
    [text |-> <<45, 49>>, nan |-> FALSE, n |-> 0 - 1],   \* "-1"
    [text |-> <<120>>,    nan |-> TRUE,  n |-> 0],       \* "x"
    [text |-> <<>>,       nan |-> TRUE,  n |-> 0] }      \* ""

InitActive ==
  /\ EngineIdle
  /\ IdleExceptActive
  /\ aw = NoActive

\* the first construction of the widget, over whatever the store holds
WidgetConstructed ==
  /\ ~aw.constructed
  /\ \E n \in 1..MaxTabs : \E item \in {NoItem} \cup {[present |-> TRUE, text |-> c.text] : c \in StoredCases} : \E getFails \in BOOLEAN :
       aw' = [NoActive EXCEPT
                !.constructed = TRUE, !.tabs = n, !.item = item, !.found = item, !.getFailed = getFails, !.builds = 1,
                !.activeTab = loadActiveTabStored(getFails, [NoStorage EXCEPT !.tabWidget = item], n).result]
  /\ UNCHANGED <<editorVars, cq, pq, tq, fault>>
  /\ UNCHANGED exceptActive

\* button.onclick of the button of tab `index`
ActiveButtonClicked ==
  /\ aw.constructed
  /\ aw.clicks < MaxClicks
  /\ \E index \in 0..(aw.tabs - 1) : \E setFails \in BOOLEAN :
       aw' = [aw EXCEPT !.activeTab = index, !.clicks = @ + 1,
                        !.item = saveActiveTab(setFails, [NoStorage EXCEPT !.tabWidget = aw.item], index).storage.tabWidget]
  /\ UNCHANGED <<editorVars, cq, pq, tq, fault>>
  /\ UNCHANGED exceptActive

\* a later pass constructs the widget of the same text anew
WidgetConstructedAgain ==
  /\ aw.constructed
  /\ aw.builds < MaxBuilds
  /\ \E getFails \in BOOLEAN :
       aw' = [aw EXCEPT !.builds = @ + 1, !.found = aw.item, !.getFailed = getFails,
                        !.activeTab = loadActiveTabStored(getFails, [NoStorage EXCEPT !.tabWidget = aw.item], aw.tabs).result]
  /\ UNCHANGED <<editorVars, cq, pq, tq, fault>>
  /\ UNCHANGED exceptActive

NextActive == WidgetConstructed \/ ActiveButtonClicked \/ WidgetConstructedAgain

SpecActive == InitActive /\ [][NextActive]_vars

(***************************************************************************)
(* tabsParser.ts: the start tag of a tabs block and the search for the     *)
(* block an element of the reading view belongs to.                        *)
(***************************************************************************)
IdKey         == <<105, 100>>                                                           \* "id"
AutogenPrefix == <<116, 97, 98, 115, 45, 97, 117, 116, 111, 103, 101, 110, 45, 76>>     \* "tabs-autogen-L"
TabsIdLine    == <<58, 58, 116, 97, 98, 115, 40, 105, 100, 61, 34, 116, 34, 41>>        \* `::tabs(id="t")`

\* the truthiness of a property value
Truthy(v) == IF v.type = "string" THEN v.string # <<>> ELSE v.boolean

\* match[1] || "" of TABS_START_REGEX on a line that starts with ::tabs
startGroup(trimmedLine) ==
  IF /\ Len(trimmedLine) > Len(TabsLine)
     /\ trimmedLine[Len(TabsLine) + 1] = 40
     /\ IndexOf(trimmedLine, <<41>>, Len(TabsLine) + 1) # -1
  THEN Slice(trimmedLine, Len(TabsLine) + 1, IndexOf(trimmedLine, <<41>>, Len(TabsLine) + 1))
  ELSE <<>>

\* null of parseTabsStartTag and of findNearestTabsStartTagAbove
NoStartTag == [isStart |-> FALSE, id |-> BooleanValue(FALSE), properties |-> <<>>, rawLine |-> <<>>, sectionLineNumber |-> 0]

\* the id parseTabsStartTag resolves: the explicit one when it is truthy
finalId(properties, sectionLineNum) ==
  IF IdKey \in DOMAIN properties /\ Truthy(properties[IdKey])
  THEN properties[IdKey]
  ELSE StringValue(AutogenPrefix \o ToString10(sectionLineNum))

startTagOf(trimmedLine, properties, sectionLineNum) ==
  [isStart |-> TRUE, id |-> finalId(properties, sectionLineNum),
   properties |-> (IdKey :> finalId(properties, sectionLineNum)) @@ properties,
   rawLine |-> trimmedLine, sectionLineNumber |-> sectionLineNum]

\* parseTabsStartTag(line, sectionLineNum), sectionLineNum given
parseTabsStartTag(line, sectionLineNum) ==
  IF ~StartsWith(Trim(line), TabsLine) THEN NoStartTag
  ELSE startTagOf(Trim(line),
                  parseBlockProperties(TabsLine \o <<40>> \o startGroup(Trim(line)) \o <<41>>, TabsLine),
                  sectionLineNum)

isTabsEndTag(line) == Trim(line) = EndLine

\* one iteration of the for loop of findNearestTabsStartTagAbove, on
\* linesAbove[i]
nearestStep(n) ==
  [n EXCEPT
     !.i = @ + 1,
     !.openTabsBlocks =
       IF parseTabsStartTag(n.linesAbove[n.i + 1], n.lineStart - (Len(n.linesAbove) - n.i)).isStart
       THEN Append(@, parseTabsStartTag(n.linesAbove[n.i + 1], n.lineStart - (Len(n.linesAbove) - n.i)))
       ELSE IF isTabsEndTag(n.linesAbove[n.i + 1]) /\ Len(@) > 0
       THEN SubSeq(@, 1, Len(@) - 1)
       ELSE @]

RECURSIVE nearestLoop(_)
nearestLoop(n) == IF n.i >= Len(n.linesAbove) THEN n ELSE nearestLoop(nearestStep(n))

\* what the function returns once the loop is over
nearestResult(n) ==
  IF Len(n.openTabsBlocks) > 0 THEN n.openTabsBlocks[Len(n.openTabsBlocks)] ELSE NoStartTag

findNearestTabsStartTagAbove(linesAbove, currentElementOriginalLineStart) ==
  nearestResult(nearestLoop([NoNearest EXCEPT !.linesAbove = linesAbove, !.lineStart = currentElementOriginalLineStart]))

\* history: the blocks of every type that are open after line i, a `::`
\* line closing the one opened last; a block that is no tabs block is
\* entered as NoStartTag
blocksAfter(n) ==
  IF isTabsEndTag(n.linesAbove[n.i + 1])
  THEN IF n.openBlocks = <<>> THEN <<>> ELSE SubSeq(n.openBlocks, 1, Len(n.openBlocks) - 1)
  ELSE IF StartsWith(Trim(n.linesAbove[n.i + 1]), EndLine)
  THEN Append(n.openBlocks, parseTabsStartTag(n.linesAbove[n.i + 1], n.lineStart - (Len(n.linesAbove) - n.i)))
  ELSE n.openBlocks

\* the lines that may stand above an element
AboveLines == {TabsLine, TabsIdLine, NoteLine, EndLine, TextA}

InitNearest ==
  /\ EngineIdle
  /\ IdleExceptNearest
  /\ nr = NoNearest

\* the post processor calls the function for an element below linesAbove
NearestCall ==
  /\ ~nr.called
  /\ \E n \in 0..MaxAbove : \E linesAbove \in [1..n -> AboveLines] :
       nr' = [NoNearest EXCEPT !.called = TRUE, !.linesAbove = linesAbove, !.lineStart = n]
  /\ UNCHANGED <<editorVars, cq, pq, tq, fault>>
  /\ UNCHANGED exceptNearest

\* one iteration of the loop
NearestLine ==
  /\ nr.called
  /\ nr.i < Len(nr.linesAbove)
  /\ nr' = [nearestStep(nr) EXCEPT !.openBlocks = blocksAfter(nr)]
  /\ UNCHANGED <<editorVars, cq, pq, tq, fault>>
  /\ UNCHANGED exceptNearest

\* the loop is over: the function returns
NearestReturns ==
  /\ nr.called
  /\ ~nr.done
  /\ nr.i >= Len(nr.linesAbove)
  /\ nr' = [nr EXCEPT !.done = TRUE]
  /\ UNCHANGED <<editorVars, cq, pq, tq, fault>>
  /\ UNCHANGED exceptNearest

NextNearest == NearestCall \/ NearestLine \/ NearestReturns

SpecNearest == InitNearest /\ [][NextNearest]_vars

(***************************************************************************)
(* tabsPostProcessor.ts and the FileTabsManager of one file in reading     *)
(* view.  Obsidian hands the elements of the sections to process(), each   *)
(* section being one line of the document; a section may be rendered anew  *)
(* into a fresh element.  A manager is an object of its own: the registry  *)
(* maps an id to the index of a manager, and the onunload callbacks keep   *)
(* the manager they were created with.  render() is followed up to its     *)
(* first await; the local store holds no active tab for the blocks.        *)
(***************************************************************************)
DefLineA == TabMarker \o <<32, 65>>                          \* "--tab A"

\* the document of the file; its non-empty lines are the sections
RegistryDoc ==
  <<TabsIdLine, EmptyLine, DefLineA, EmptyLine, TextA, EmptyLine, TextA, EmptyLine, EndLine, EmptyLine, TabsIdLine>>

\* sectionInfo.lineStart of the sections
SectionStarts == {l \in 0..(Len(RegistryDoc) - 1) : RegistryDoc[l + 1] # EmptyLine}

\* the element Obsidian renders for the section at lineStart
NewDomElement(lineStart) ==
  [lineStart |-> lineStart, tabsId |-> BooleanValue(FALSE), children |-> <<"source">>,
   hidden |-> FALSE, managed |-> FALSE, attached |-> TRUE, unload |-> <<>>]

\* a line of an element as getStructuredTabs classifies it
lineOf(line) ==
  IF StartsWith(Trim(line), TabMarker) THEN DefinitionLine(Trim(line), FALSE)
  ELSE IF isTabsEndTag(Trim(line)) THEN TabsEndLine
  ELSE ContentLine(line)

\* getStructuredTabs of a manager whose elements hold their lines as text
textTabs(elements) ==
  getStructuredTabs([i \in 1..Len(elements) |->
    [elements[i] EXCEPT !.linesOfElement = [k \in 1..Len(@) |-> lineOf(@[k])]]])

\* TabsBlockManager.render of manager m, up to its first await
renderRoot(f, m) ==
  [f EXCEPT
     !.dom[f.managers[m].rootElement].children =
       IF textTabs(f.managers[m].elements) = <<>>
       THEN <<"tabs-placeholder">>
       ELSE <<"ginko-tab-buttons", "ginko-tab-contents">>,
     !.managers[m].activeTabIndex =
       IF textTabs(f.managers[m].elements) # <<>> /\ (@ < 0 \/ @ >= Len(textTabs(f.managers[m].elements)))
       THEN 0 ELSE @]

\* FileTabsManager.removeTabsBlockManager(id, removeFromMap)
removeTabsBlockManager(f, id, removeFromMap) ==
  IF id \notin DOMAIN f.tabsBlocks THEN f
  ELSE [f EXCEPT
          !.dom[f.managers[f.tabsBlocks[id]].rootElement].children = <<"unloaded">>,
          !.tabsBlocks = IF removeFromMap THEN MapDelete(@, id) ELSE @]

\* new TabsBlockManager(id, rootElement, blockProperties, app)
NewBlockManager(id, rootElement, blockProperties) ==
  [id |-> id, rootElement |-> rootElement, blockProperties |-> blockProperties, elements |-> <<>>, activeTabIndex |-> 0]

\* FileTabsManager.createTabsBlockManager
createTabsBlockManager(f, id, rootElement, blockProperties) ==
  [removeTabsBlockManager(f, id, FALSE) EXCEPT
     !.managers = Append(@, NewBlockManager(id, rootElement, blockProperties)),
     !.tabsBlocks = MapSet(@, id, Len(f.managers) + 1),
     !.dom[rootElement].managed = TRUE]

\* GlobalTabsManager.removeFileManager: every manager of the file is
\* removed, and the next process() creates a new FileTabsManager
RECURSIVE removeAllManagers(_)
removeAllManagers(f) ==
  IF DOMAIN f.tabsBlocks = {} THEN f
  ELSE removeAllManagers(removeTabsBlockManager(f, CHOOSE id \in DOMAIN f.tabsBlocks : TRUE, TRUE))

removeFileManager(f) == [removeAllManagers(f) EXCEPT !.generation = @ + 1]

\* the MarkdownRenderChild of a start element: its onunload calls
\* handleUnload with the id and the FileTabsManager of its creation
BlockChild(f, id) == [kind |-> "block", tabsId |-> id, generation |-> f.generation, manager |-> 0, element |-> 0]

\* the MarkdownRenderChild of an element inside a block: its onunload keeps
\* the manager and the TabElement
ElementChild(m, elementId) == [kind |-> "element", tabsId |-> BooleanValue(FALSE), generation |-> 0, manager |-> m, element |-> elementId]

\* ctx.addChild(mdChild)
addChild(f, el, mdChild) == [f EXCEPT !.dom[el].unload = Append(@, mdChild)]

\* process(): el is the root of the manager that has the id
reprocessRoot(f, el, start) ==
  addChild(renderRoot([f EXCEPT !.managers[f.tabsBlocks[start.id]].blockProperties = start.properties],
                      f.tabsBlocks[start.id]),
           el, BlockChild(f, start.id))

\* variant: the element that asks for a bound id takes the id over
showConflictAndClaim(f, el, start) ==
  [createTabsBlockManager(f, start.id, el, start.properties) EXCEPT !.dom[el].children = Append(@, "tabs-error")]

\* process(): the id has a manager with another root
showConflict(f, el, start) == [f EXCEPT !.dom[el].children = Append(@, "tabs-error")]

\* process(): the element of a ::tabs start line
processStart(f, el, start) ==
  IF start.id \in DOMAIN f.tabsBlocks
  THEN IF f.managers[f.tabsBlocks[start.id]].rootElement = el
       THEN reprocessRoot([f EXCEPT !.dom[el].tabsId = start.id, !.dom[el].children = <<>>], el, start)
       ELSE showConflict([f EXCEPT !.dom[el].tabsId = start.id, !.dom[el].children = <<>>], el, start)
  ELSE addChild(createTabsBlockManager([f EXCEPT !.dom[el].tabsId = start.id, !.dom[el].children = <<>>],
                                       start.id, el, start.properties),
                el, BlockChild(f, start.id))

\* new TabElement(el, linesOfElement, tabElementId) for the element of the
\* section at lineStart
NewTabElement(f, el) ==
  [id |-> f.uids + 1, linesOfElement |-> <<RegistryDoc[f.dom[el].lineStart + 1]>>,
   position |-> f.dom[el].lineStart, originalElement |-> el]

\* process(): an element below the start line `nearest`
processInner(f, el, nearest) ==
  IF nearest.id \notin DOMAIN f.tabsBlocks THEN f
  ELSE addChild(
         renderRoot([f EXCEPT
                       !.dom[el].hidden = TRUE,
                       !.uids = @ + 1,
                       !.managers[f.tabsBlocks[nearest.id]].elements = addElement(@, NewTabElement(f, el)),
                       !.live = @ \cup {[manager |-> f.tabsBlocks[nearest.id], id |-> f.uids + 1, position |-> f.dom[el].lineStart]}],
                    f.tabsBlocks[nearest.id]),
         el, ElementChild(f.tabsBlocks[nearest.id], f.uids + 1))

\* parseTabsStartTag(textOfElement, sectionInfo.lineStart) for element el
startOf(f, el) == parseTabsStartTag(RegistryDoc[f.dom[el].lineStart + 1], f.dom[el].lineStart)

\* findNearestTabsStartTagAbove(linesAboveArray, docLines, sectionInfo.lineStart)
nearestOf(f, el) == findNearestTabsStartTagAbove(SubSeq(RegistryDoc, 1, f.dom[el].lineStart), f.dom[el].lineStart)

\* TabsPostProcessor.process(el, ctx)
process(f, el) ==
  IF startOf(f, el).isStart THEN processStart(f, el, startOf(f, el))
  ELSE IF nearestOf(f, el).isStart THEN processInner(f, el, nearestOf(f, el))
  ELSE f

\* history: the branch process(el) takes
processBranch(f, el) ==
  IF startOf(f, el).isStart
  THEN IF startOf(f, el).id \notin DOMAIN f.tabsBlocks THEN "create"
       ELSE IF f.managers[f.tabsBlocks[startOf(f, el).id]].rootElement = el THEN "reprocess"
       ELSE "conflict"
  ELSE IF ~nearestOf(f, el).isStart THEN "outside"
  ELSE IF nearestOf(f, el).id \notin DOMAIN f.tabsBlocks THEN "nomanager"
  ELSE "element"

\* TabsPostProcessor.handleUnload; inView is fileStillInView(sourcePath)
handleUnload(f, mdChild, inView) ==
  IF ~inView THEN removeFileManager(f)
  ELSE IF /\ mdChild.generation = f.generation
          /\ mdChild.tabsId \in DOMAIN f.tabsBlocks
          /\ ~f.dom[f.managers[f.tabsBlocks[mdChild.tabsId]].rootElement].attached
  THEN removeTabsBlockManager(f, mdChild.tabsId, TRUE)
  ELSE f

\* mdChild.onunload of an element inside a block
elementUnload(f, mdChild) ==
  renderRoot([f EXCEPT
                !.managers[mdChild.manager].elements = removeElement(@, mdChild.element),
                !.live = {x \in @ : ~(x.manager = mdChild.manager /\ x.id = mdChild.element)}],
             mdChild.manager)

InitRegistry ==
  /\ EngineIdle
  /\ IdleExceptRegistry
  /\ fm = NoRegistry

\* Obsidian renders a section into a new element and hands it to process()
SectionRendered ==
  /\ fm.calls < MaxProcess
  /\ \E lineStart \in SectionStarts :
       fm' = [process([fm EXCEPT !.dom = Append(@, NewDomElement(lineStart))], Len(fm.dom) + 1) EXCEPT
                !.calls = @ + 1,
                !.last = [branch |-> processBranch([fm EXCEPT !.dom = Append(@, NewDomElement(lineStart))], Len(fm.dom) + 1),
                           el |-> Len(fm.dom) + 1]]
  /\ UNCHANGED <<editorVars, cq, pq, tq, fault>>
  /\ UNCHANGED exceptRegistry

\* Obsidian hands an element to process() once more
ElementProcessedAgain ==
  /\ fm.calls < MaxProcess
  /\ \E el \in 1..Len(fm.dom) :
       /\ fm.dom[el].attached
       /\ fm' = [process(fm, el) EXCEPT
                   !.calls = @ + 1,
                   !.last = [branch |-> processBranch(fm, el), el |-> el]]
  /\ UNCHANGED <<editorVars, cq, pq, tq, fault>>
  /\ UNCHANGED exceptRegistry

\* Obsidian unloads the oldest render child of an element, the element
\* staying in the document or not
ChildUnloads ==
  /\ \E el \in 1..Len(fm.dom) : \E attached \in {fm.dom[el].attached, FALSE} : \E inView \in BOOLEAN :
       /\ fm.dom[el].unload # <<>>
       /\ fm.dom[el].unload[1].kind = "element" => inView
       /\ fm' = [(IF fm.dom[el].unload[1].kind = "block"
                  THEN handleUnload([fm EXCEPT !.dom[el].unload = Tail(@), !.dom[el].attached = attached], fm.dom[el].unload[1], inView)
                  ELSE elementUnload([fm EXCEPT !.dom[el].unload = Tail(@), !.dom[el].attached = attached], fm.dom[el].unload[1]))
                 EXCEPT !.last = [branch |-> "unload", el |-> el]]
  /\ UNCHANGED <<editorVars, cq, pq, tq, fault>>
  /\ UNCHANGED exceptRegistry

NextRegistry == SectionRendered \/ ElementProcessedAgain \/ ChildUnloads

SpecRegistry == InitRegistry /\ [][NextRegistry]_vars

(***************************************************************************)
(* Properties.                                                             *)
(***************************************************************************)
\* the candidates of the last pass: the start tags for which the scanner
\* found a region
Candidates == {i \in 1..Len(pass.log) : pass.log[i].found}

\* the decorations of ds that cover exactly [from, to)
Covering(ds, from, to) ==
  {k \in 1..Len(ds) : ds[k].from = from /\ ds[k].to = to}

\* some range of the selection meets the closed interval [start, end]
Overlaps(ranges, start, end) ==
  \E i \in 1..Len(ranges) : ranges[i].from <= end /\ ranges[i].to >= start

\* C1: in a pass, a candidate region is decorated iff shouldProcessContent
\* accepts it, its start is not inside a fenced code block and no caret or
\* selection range overlaps [startIndex, endIndex]; a decorated candidate has
\* exactly one decoration over [startIndex, endIndex), every other candidate
\* has none, and every decoration belongs to a candidate.
C1_RenderedIffEligible ==
  passRan =>
    /\ decos = pass.decos
    /\ \A i \in Candidates :
         Cardinality(Covering(decos, pass.log[i].startIndex, pass.log[i].endIndex))
           = IF /\ shouldProcessContent(pass.log[i].regionText)
                /\ ~isInCodeBlock(docText, pass.log[i].startIndex)
                /\ ~Overlaps(selection, pass.log[i].startIndex, pass.log[i].endIndex)
             THEN 1 ELSE 0
    /\ \A k \in 1..Len(decos) :
         \E i \in Candidates : k \in Covering(decos, pass.log[i].startIndex,
                                              pass.log[i].endIndex)

\* a pass that renders one candidate and suppresses another
C1_Witness ==
  /\ passRan
  /\ \E i \in Candidates, j \in Candidates :
       /\ Covering(decos, pass.log[i].startIndex, pass.log[i].endIndex) # {}
       /\ Covering(decos, pass.log[j].startIndex, pass.log[j].endIndex) = {}

\* the last transaction ran a pass with a caret strictly inside candidate i,
\* and this step is a selection-only transaction that puts the caret before
\* the candidate's start
CaretLeaves(i) ==
  /\ passRan
  /\ docText = pass.docText
  /\ Len(selection) = 1
  /\ selection[1].from = selection[1].to
  /\ pass.log[i].startIndex < selection[1].from
  /\ selection[1].from < pass.log[i].endIndex
  /\ docText' = docText
  /\ \E q \in 0..(pass.log[i].startIndex - 1) : selection' = Caret(q)

\* C2 (as stated): a pass whose caret lies inside a well-formed region R
\* omits R, and a following selection-only transaction that moves the caret
\* before R's start makes R appear in the output of the next pass.
C2_CaretLeavesRegion ==
  [][\A i \in Candidates :
       CaretLeaves(i) =>
         /\ Covering(decos, pass.log[i].startIndex, pass.log[i].endIndex) = {}
         /\ passRan'
         /\ Covering(decos', pass.log[i].startIndex, pass.log[i].endIndex) # {}]_vars

\* C2 (amended): the same, for a region R whose start is not inside a fenced
\* code block.
C2_CaretLeavesUnfencedRegion ==
  [][\A i \in Candidates :
       (CaretLeaves(i) /\ ~isInCodeBlock(docText, pass.log[i].startIndex)) =>
         /\ Covering(decos, pass.log[i].startIndex, pass.log[i].endIndex) = {}
         /\ passRan'
         /\ Covering(decos', pass.log[i].startIndex, pass.log[i].endIndex) # {}]_vars

\* two passes over the same document: the first with a caret strictly inside
\* a region it omits, the next with the caret before the region, which it
\* renders
C2_Witness ==
  /\ passRan
  /\ pass.n >= 2
  /\ prevPass.docText = docText
  /\ \E i \in 1..Len(prevPass.log) :
       /\ prevPass.log[i].found
       /\ Covering(prevPass.decos, prevPass.log[i].startIndex,
                   prevPass.log[i].endIndex) = {}
       /\ Len(prevPass.selection) = 1
       /\ prevPass.selection[1].from = prevPass.selection[1].to
       /\ prevPass.log[i].startIndex < prevPass.selection[1].from
       /\ prevPass.selection[1].from < prevPass.log[i].endIndex
       /\ Len(selection) = 1
       /\ selection[1].to < prevPass.log[i].startIndex
       /\ Covering(decos, prevPass.log[i].startIndex, prevPass.log[i].endIndex) # {}

\* C3: checkCursorInRegion returns true exactly when some caret position p
\* satisfies start <= p <= end or some selection range (from <= to) meets the
\* closed interval [start, end].
C3_CursorInRegion ==
  cq.asked =>
    (cq.result <=>
       \/ \E i \in 1..Len(cq.carets) :
            cq.startIndex <= cq.carets[i] /\ cq.carets[i] <= cq.endIndex
       \/ \E i \in 1..Len(cq.ranges) :
            cq.ranges[i].from <= cq.endIndex /\ cq.ranges[i].to >= cq.startIndex)

\* a caret exactly at the end of the region suppresses it
C3_Witness ==
  /\ cq.asked
  /\ cq.startIndex < cq.endIndex
  /\ cq.ranges = Caret(cq.endIndex)
  /\ cq.result

\* the candidates of the pass before the last
PrevCandidates == {j \in 1..Len(prevPass.log) : prevPass.log[j].found}

\* the document substring [from, to) a decoration d of a pass over text covers
RawText(text, d) == Slice(text, d.from, d.to)

\* C4 (as stated): two consecutive passes over unchanged text that both
\* render a region carry the identical widget instance for it.
C4_SameInstanceUnchangedText ==
  (passRan /\ pass.n >= 2 /\ prevPass.docText = docText) =>
    \A k \in 1..Len(decos), j \in 1..Len(prevPass.decos) :
      (decos[k].from = prevPass.decos[j].from /\ decos[k].to = prevPass.decos[j].to)
        => decos[k].widget.inst = prevPass.decos[j].widget.inst

\* C5 (as stated): a region rendered by a pass whose raw text is
\* byte-identical to a region rendered by the pass before carries the widget
\* instance of such a region, wherever the edit moved it.
C5_SameInstanceIdenticalText ==
  (passRan /\ pass.n >= 2) =>
    \A k \in 1..Len(decos) :
      (\E j \in 1..Len(prevPass.decos) :
         RawText(prevPass.docText, prevPass.decos[j]) = RawText(docText, decos[k]))
      => \E j \in 1..Len(prevPass.decos) :
           /\ RawText(prevPass.docText, prevPass.decos[j]) = RawText(docText, decos[k])
           /\ prevPass.decos[j].widget.inst = decos[k].widget.inst

\* candidate i of the last pass is rendered; the pass before suppressed the
\* same text as its candidate j because the selection overlapped it, after
\* an earlier pass had rendered it; no other candidate of either pass has
\* this text, and no decoration of the pass before has its fingerprint
RenderedAfterSuppression(i, j) ==
  /\ passRan
  /\ pass.n >= 2
  /\ pass.log[i].widget # NoWidget
  /\ prevPass.log[j].regionText = pass.log[i].regionText
  /\ prevPass.log[j].accepted
  /\ prevPass.log[j].widget = NoWidget
  /\ Overlaps(prevPass.selection, prevPass.log[j].startIndex, prevPass.log[j].endIndex)
  /\ prevPass.log[j].owed # 0
  /\ \A m \in Candidates \ {i} : pass.log[m].regionText # pass.log[i].regionText
  /\ \A m \in PrevCandidates \ {j} : prevPass.log[m].regionText # pass.log[i].regionText
  /\ \A m \in 1..Len(prevPass.decos) :
       prevPass.decos[m].widget.id # widgetId(pass.log[i].regionText)

\* C6 (as stated): a region rendered, then suppressed because the caret
\* enters it, then rendered again with its text unchanged carries after the
\* suppression the instance it carried before it.
C6_InstanceSurvivesSuppression ==
  \A i \in Candidates, j \in PrevCandidates :
    RenderedAfterSuppression(i, j) => pass.log[i].widget.inst = prevPass.log[j].owed

\* C6 (amended): such a region carries after the suppression an instance
\* constructed by the pass that renders it again, not the one before.
C6_FreshInstanceAfterSuppression ==
  \A i \in Candidates, j \in PrevCandidates :
    RenderedAfterSuppression(i, j) =>
      /\ pass.log[i].widget.inst > pass.base
      /\ pass.log[i].widget.inst # prevPass.log[j].owed

\* a region rendered again after a suppression
C6_Witness ==
  \E i \in Candidates, j \in PrevCandidates :
    RenderedAfterSuppression(i, j) /\ prevPass.docText = docText

C8_CollisionReusesInstance ==
  (passRan /\ pass.n >= 2) =>
    \A i \in Candidates, j \in PrevCandidates :
      (/\ pass.log[i].widget # NoWidget
       /\ prevPass.log[j].widget # NoWidget
       /\ pass.log[i].regionText # prevPass.log[j].regionText
       /\ hashContent(pass.log[i].regionText) = hashContent(prevPass.log[j].regionText))
      => /\ pass.log[i].widget.inst = prevPass.log[j].widget.inst
         /\ ~pass.log[i].created

\* a line that neither opens nor closes a block and holds no start tag
PlainLine(line) == ~StartsWith(Trim(line), EndLine) /\ ~Includes(line, startTag)

\* the lines i < j < k < l of the document are `::tabs`, `::tabs`, `::`,
\* `::` and every other line is plain
NestedAt(lines, i, j, k, l) ==
  /\ i < j /\ j < k /\ k < l
  /\ lines[i] = TabsLine /\ lines[j] = TabsLine
  /\ lines[k] = EndLine /\ lines[l] = EndLine
  /\ \A m \in (1..Len(lines)) \ {i, j, k, l} : PlainLine(lines[m])

\* C9: for a document whose only block is a `::tabs` block holding a
\* complete nested `::tabs ... ::` block, the pass finds exactly one region,
\* from the outer start tag to the end of the second `::` line, whose text is
\* the document text between them (the inner block included), and none that
\* starts at the inner start tag.
C9_NestedBlockIsOneRegion ==
  passRan =>
    \A i \in 1..Len(Split(docText)), j \in 1..Len(Split(docText)),
       k \in 1..Len(Split(docText)), l \in 1..Len(Split(docText)) :
      NestedAt(Split(docText), i, j, k, l) =>
        /\ Cardinality(Candidates) = 1
        /\ \A c \in Candidates :
             /\ pass.log[c].startIndex = LineStart(Split(docText), i)
             /\ pass.log[c].endIndex = LineStart(Split(docText), l) + Len(EndLine)
             /\ pass.log[c].regionText = Join(SubSeq(Split(docText), i, l))
        /\ \A c \in 1..Len(pass.log) :
             pass.log[c].startIndex # LineStart(Split(docText), j)

\* a pass over a nested block with text inside the inner block
C9_Witness ==
  /\ passRan
  /\ docText = Join(<<TabsLine, TabsLine, TextA, EndLine, EndLine>>)
  /\ Len(pass.log) = 1
  /\ pass.log[1].found
  /\ pass.log[1].regionText = docText

\* the offsets at which the start tag occurs in text
TagOffsets(text) ==
  {t \in 0..(Len(text) - Len(startTag)) :
     SubSeq(text, t + 1, t + Len(startTag)) = startTag}

\* line l of the lines from a start tag on closes the block the first line
\* opens: it is an end line, and up to it as many end lines were read as
\* lines that open a block
ClosesAt(lines, l) ==
  /\ Trim(lines[l]) = EndLine
  /\ Cardinality({m \in 2..l : Trim(lines[m]) = EndLine})
       = Cardinality({m \in 1..(l - 1) :
                        StartsWith(Trim(lines[m]), EndLine) /\ Trim(lines[m]) # EndLine})

\* no line closes the block opened by the start tag at offset t
Unterminated(text, t) ==
  \A l \in 2..Len(Split(SliceFrom(text, t))) : ~ClosesAt(Split(SliceFrom(text, t)), l)

\* C10: a start tag whose block is still open at the end of the document
\* yields no region; a document whose only start tag is unterminated gets an
\* empty decoration set.
C10_UnterminatedYieldsNothing ==
  passRan =>
    /\ \A c \in 1..Len(pass.log) :
         Unterminated(docText, pass.log[c].startIndex) => ~pass.log[c].found
    /\ \A t \in TagOffsets(docText) :
         (TagOffsets(docText) = {t} /\ Unterminated(docText, t)) =>
           /\ decos = <<>>
           /\ Len(pass.log) = 1
           /\ pass.log[1].startIndex = t
           /\ ~pass.log[1].found

\* a pass over a document whose only start tag is closed by no end line,
\* with the caret away from it
C10_Witness ==
  /\ passRan
  /\ docText = Join(<<TextA, TabsLine, NoteLine, EndLine>>)
  /\ selection = Caret(0)
  /\ Len(pass.log) = 1
  /\ ~pass.log[1].found
  /\ decos = <<>>

\* the block opened by the start tag at offset t is closed by some line
WellFormed(text, t) == ~Unterminated(text, t)

\* the offset of the end of the line that closes the block opened at t
EndOf(text, t) ==
  t + Len(Join(SubSeq(Split(SliceFrom(text, t)), 1,
                      CHOOSE l \in 2..Len(Split(SliceFrom(text, t))) :
                        /\ ClosesAt(Split(SliceFrom(text, t)), l)
                        /\ \A m \in 2..(l - 1) : ~ClosesAt(Split(SliceFrom(text, t)), m))))

\* the start tag at t lies in no block opened by an earlier start tag
Outermost(text, t) ==
  \A w \in TagOffsets(text) :
    w < t => (Unterminated(text, w) \/ EndOf(text, w) <= t)

PosBefore(c) == IF c = 1 THEN 0 ELSE pass.log[c - 1].pos

\* C12: the scan loop of a pass ends: every iteration finds its start tag at
\* or after the scan position and leaves a strictly greater position within
\* the document, the region's end offset after a successful match and the
\* offset behind the start tag after a failed one; so there are at most as
\* many iterations as start tags in the document.
C12_ScanPositionIncreases ==
  passRan =>
    /\ \A c \in 1..Len(pass.log) :
         /\ PosBefore(c) <= pass.log[c].startIndex
         /\ PosBefore(c) < pass.log[c].pos
         /\ pass.log[c].pos <= Len(docText)
         /\ pass.log[c].found => pass.log[c].pos = pass.log[c].endIndex
         /\ ~pass.log[c].found =>
              pass.log[c].pos = pass.log[c].startIndex + Len(startTag)
    /\ Len(pass.log) <= Cardinality(TagOffsets(docText))

\* a pass with a failed match followed by a successful one and a third
\* iteration
C12_Witness ==
  /\ passRan
  /\ Len(pass.log) >= 3
  /\ \E c \in 1..Len(pass.log) : ~pass.log[c].found
  /\ \E c \in 1..Len(pass.log) : pass.log[c].found

\* text other than whitespace stands between the start of its line and
\* offset t
MidLine(text, t) ==
  \E q \in 0..(t - 1) :
    /\ text[q + 1] \notin Whitespace
    /\ \A r \in q..(t - 1) : text[r + 1] # NL

\* C13 (as stated): no decoration of a pass starts at a start tag that is
\* preceded on its line by text other than whitespace.
C13_NoRegionAtMidLineTag ==
  passRan => \A k \in 1..Len(decos) : ~MidLine(docText, decos[k].from)

\* C15: the decorations of a pass are in strictly ascending start offset and
\* each starts at or after the end of the one before; so do the regions the
\* scanner found, rendered or not.
C15_AscendingNonOverlapping ==
  passRan =>
    /\ \A k \in 1..(Len(decos) - 1) :
         /\ decos[k].from < decos[k + 1].from
         /\ decos[k].to <= decos[k + 1].from
    /\ \A c \in Candidates, d \in Candidates :
         c < d => /\ pass.log[c].startIndex < pass.log[d].startIndex
                  /\ pass.log[c].endIndex <= pass.log[d].startIndex

\* a pass that renders two regions
C15_Witness ==
  /\ passRan
  /\ Len(decos) = 2
  /\ decos[1].to < decos[2].from

\* C14 (as stated): every decoration of the current decoration set lies
\* within the current document: 0 <= from < to <= length of the document.
C14_DecorationsWithinDocument ==
  \A k \in 1..Len(decos) :
    /\ 0 <= decos[k].from
    /\ decos[k].from < decos[k].to
    /\ decos[k].to <= Len(docText)

Stating(k) ==
  {i \in 1..Len(pq.tokens) :
     pq.tokens[i].kind \in {"quoted", "bare"} /\ pq.tokens[i].key = k}

\* the value a `key="value"` token or a bare word states
Stated(token) ==
  IF token.kind = "quoted" THEN StringValue(token.value) ELSE BooleanValue(TRUE)

\* C17 (as stated): the parsed map has exactly the keys of the `key="value"`
\* tokens and of the bare words; a key has the string between the quotes
\* (the empty string for `key=""`) or true as one of its tokens states; no
\* other token adds a key, and the empty property string gives the empty map.
C17_QuotedAndBareTokensOnly ==
  pq.asked =>
    /\ DOMAIN pq.result = {pq.tokens[i].key : i \in {j \in 1..Len(pq.tokens) :
                                              pq.tokens[j].kind \in {"quoted", "bare"}}}
    /\ \A k \in DOMAIN pq.result :
         \E i \in Stating(k) : pq.result[k] = Stated(pq.tokens[i])
    /\ pq.tokens = <<>> => DOMAIN pq.result = {}

\* the map the parser gives token i of the parsed property string alone
Alone(i) == parseBlockProperties(PropsLine(pq.tokens[i].text), startTag)

\* C18: a key of the parsed map has the value its last occurrence gives:
\* the value the parser gives the last token that sets the key, whatever
\* the earlier tokens set it to.
C18_LastOccurrenceWins ==
  pq.asked =>
    /\ DOMAIN pq.result = UNION {DOMAIN Alone(i) : i \in 1..Len(pq.tokens)}
    /\ \A i \in 1..Len(pq.tokens) :
         \A k \in DOMAIN Alone(i) :
           (\A j \in (i + 1)..Len(pq.tokens) : k \notin DOMAIN Alone(j))
             => pq.result[k] = Alone(i)[k]

\* a key given first as a string, then as a flag
C18_Witness ==
  /\ pq.asked
  /\ Len(pq.tokens) = 2
  /\ pq.tokens[1].text = <<97, 61, 34, 120, 34>>
  /\ pq.tokens[2].text = <<97>>
  /\ pq.result[<<97>>] = BooleanValue(TRUE)

\* the `--tab` lines among the lines ls
TabIdx(ls) == {i \in 1..Len(ls) : ls[i].isTab}

\* the number of the part of the `--tab` line t of ls
PartOf(ls, t) == Cardinality({j \in TabIdx(ls) : j <= t})

\* the line behind the content of the `--tab` line t of ls: the next `--tab`
\* line, or the end of ls
NextTab(ls, t) ==
  IF \E j \in TabIdx(ls) : j > t
  THEN CHOOSE j \in TabIdx(ls) : j > t /\ \A m \in TabIdx(ls) : m > t => j <= m
  ELSE Len(ls) + 1

\* the texts of the lines from..to of ls
Texts(ls, from, to) == [k \in 1..(to - from + 1) |-> ls[from + k - 1].text]

\* the properties of a part other than its title
OwnProps(part) == DOMAIN part.properties \ {TitleKey, RawTitleKey}

\* the lines of the block without the start tag and its properties and
\* without the closing `::`: what remains of the start line, the lines
\* between, and what remains of the closing line
Remaining == tq.open.rest \o tq.body \o tq.close.rest

\* C19 (as stated): the parts of the widget are the `--tab` lines of the
\* region in order; a part has the title and the properties of its line and
\* as content the lines behind it up to the next `--tab` line or the closing
\* `::`; lines before the first `--tab` line are in no part.
C19_PartsAreTabLines ==
  tq.asked =>
    /\ Len(tq.tabs) = Cardinality(TabIdx(tq.body))
    /\ \A t \in TabIdx(tq.body) :
         /\ tq.tabs[PartOf(tq.body, t)].title = tq.body[t].title
         /\ tq.tabs[PartOf(tq.body, t)].content
              = Join(Texts(tq.body, t + 1, NextTab(tq.body, t) - 1))
         /\ OwnProps(tq.tabs[PartOf(tq.body, t)]) = DOMAIN tq.body[t].props
         /\ \A k \in DOMAIN tq.body[t].props :
              tq.tabs[PartOf(tq.body, t)].properties[k] = tq.body[t].props[k]

\* C19 (amended): the same over the lines that remain of the region when
\* the start tag with its properties and the closing `::` are taken away
\* (text behind them on the start line and before `::` on the closing line
\* are lines of their own), the title being the text behind the marker and
\* its properties without its markdown markers.
C19_PartsAreTabLinesCleaned ==
  tq.asked =>
    /\ Len(tq.tabs) = Cardinality(TabIdx(Remaining))
    /\ \A t \in TabIdx(Remaining) :
         /\ tq.tabs[PartOf(Remaining, t)].title = Remaining[t].clean
         /\ tq.tabs[PartOf(Remaining, t)].content
              = Join(Texts(Remaining, t + 1, NextTab(Remaining, t) - 1))
         /\ OwnProps(tq.tabs[PartOf(Remaining, t)]) = DOMAIN Remaining[t].props
         /\ \A k \in DOMAIN Remaining[t].props :
              tq.tabs[PartOf(Remaining, t)].properties[k] = Remaining[t].props[k]

\* a widget with two parts, the first with an icon and content, the second
\* with a title that loses its markers
C19_Witness ==
  /\ tq.asked
  /\ Len(tq.tabs) = 2
  /\ IconKey \in DOMAIN tq.tabs[1].properties
  /\ tq.tabs[1].content # <<>>
  /\ \E t \in TabIdx(tq.body) :
       PartOf(tq.body, t) = 2 /\ tq.body[t].clean # tq.body[t].title
  /\ tq.tabs[2].title = <<66>>

\* C20: an exception thrown inside the decoration pass of the last
\* transaction has not left updatePreviews, and the decoration set is the
\* one from before the transaction.
C20_ExceptionIsCaught ==
  fault.threw /\ fault.at = txCount => ~fault.escaped /\ decos = fault.oldState

\* C21: when the edit button of a rendered widget was used and nothing
\* else has happened since, a transaction has been dispatched, the region of the widget is plain text
\* and the caret is inside [startIndex, endIndex] of the region.
C21_EditButtonOpensRegion ==
  ec.clicked /\ ec.at = txCount =>
    /\ ec.dispatched
    /\ \A i \in 1..Len(decos) : decos[i].from # ec.startIndex
    /\ \E i \in 1..Len(selection) :
         /\ ec.startIndex <= selection[i].from
         /\ selection[i].to <= ec.endIndex

\* the operations that read a value for which the caller gave a default
Readers ==
  {"TabWidget.loadActiveTab", "TabsBlockManager.loadActiveTabState", "getBlockState"}

\* C22: an operation in which a read or a write of localStorage failed let
\* no exception out (the widget or manager under construction exists), and
\* a reader whose read failed returned the default.
C22_StoreFailureIsNeverFatal ==
  sq.readFailed \/ sq.writeFailed =>
    /\ ~sq.threw
    /\ sq.op \in Readers /\ sq.readFailed => sq.result = sq.default

\* the entries of the object of the block states
EntriesOf(st) == IF st.blocks.present /\ st.blocks.json THEN st.blocks.value ELSE <<>>

\* now - lastModified <= 30 days
Retained(t, lastModified) ==
  \/ lastModified.d + 30 > t.d
  \/ lastModified.d + 30 = t.d /\ lastModified.ms >= t.ms

\* the sweep at `now` kept exactly the entries of at most 30 days, each as
\* it was, and did not write when all were kept
SweptAt ==
  /\ DOMAIN EntriesOf(storage)
       = {id \in DOMAIN EntriesOf(sq.before) :
            Retained(now, EntriesOf(sq.before)[id].lastModified)}
  /\ \A id \in DOMAIN EntriesOf(storage) :
       EntriesOf(storage)[id] = EntriesOf(sq.before)[id]
  /\ (\A id \in DOMAIN EntriesOf(sq.before) :
        Retained(now, EntriesOf(sq.before)[id].lastModified))
       => storage = sq.before

\* C23 (as stated): after cleanupExpiredStates ran at `now` the store holds
\* exactly the entries that were at most 30 days old, unchanged, and was not
\* rewritten when nothing had expired.
C23_SweepKeepsThirtyDays ==
  sq.op = "cleanupExpiredStates" => SweptAt

\* C23 (amended): the same when the store could be read and written during
\* the sweep; when it could not, the store is as it was before the sweep.
C23_SweepKeepsThirtyDaysWhenStoreWorks ==
  sq.op = "cleanupExpiredStates" =>
    IF sq.readFailed \/ sq.writeFailed THEN storage = sq.before ELSE SweptAt

\* a sweep that removed an entry older than 30 days and kept one of exactly
\* 30 days
C23_Witness ==
  /\ sq.op = "cleanupExpiredStates"
  /\ ~sq.readFailed /\ ~sq.writeFailed
  /\ \E id \in DOMAIN EntriesOf(sq.before) : id \notin DOMAIN EntriesOf(storage)
  /\ \E id \in DOMAIN EntriesOf(storage) :
       Elapsed(now, EntriesOf(storage)[id].lastModified) = [d |-> 30, ms |-> 0]

\* C24: every collection that holds a fragment and has not been committed
\* has a timer pending that is due a whole debounce window after its last
\* fragment; a commit happened a whole window after the last fragment of
\* its collection; no collection was committed twice.
C24_CommitIsDebounced ==
  /\ \A i \in 1..Len(tc.map) :
       tc.map[i].elements > 0 /\ tc.map[i].connected =>
         /\ tc.map[i].timer.set
         /\ tc.map[i].timer.due = tc.map[i].lastArrival + DebounceMs
  /\ \A j \in 1..Len(tc.done) :
       /\ tc.done[j].at >= tc.done[j].lastArrival + DebounceMs
       /\ \A k \in 1..Len(tc.done) : tc.done[k].id = tc.done[j].id => k = j

C26_HashIsInjective ==
  \A i \in 1..Len(hq), j \in 1..Len(hq) :
    hq[i].input # hq[j].input => hq[i].output # hq[j].output

\* C26 (amended): the hashes of "Hello, World!" and "Hello, Universe!"
\* differ, while those of the different strings "Aa" and "BB" are the same.
C26_TestStringsHashApart ==
  \A i \in 1..Len(hq), j \in 1..Len(hq) :
    /\ hq[i].input = HelloWorld /\ hq[j].input = HelloUniverse
         => hq[i].output # hq[j].output
    /\ hq[i].input = TextA /\ hq[j].input = TextB
         => hq[i].output = hq[j].output

\* both strings of the test have been hashed
C26_Witness ==
  \E i \in 1..Len(hq), j \in 1..Len(hq) :
    hq[i].input = HelloWorld /\ hq[j].input = HelloUniverse

\* C27: valueIsInRange(value, start, end) is true exactly when
\* start <= value <= end.
C27_RangeIsInclusive ==
  vq.asked => (vq.result <=> (vq.start <= vq.value /\ vq.value <= vq.end))

\* a value at the start of a range of negative bounds, and one range of a
\* single point
C27_Witness ==
  /\ vq.asked
  /\ vq.result
  /\ vq.value = vq.start
  /\ vq.start < 0
  /\ vq.end < 0

\* C28: every iteration of the scanning loop of processProps either leaves
\* the position further on in the property text or leaves the loop, so the
\* loop runs at most once per character of the text.
C28_ScanAdvancesOrExits ==
  /\ hl.iterations > 0 => (hl.pos > hl.startPos \/ ~hl.running)
  /\ hl.iterations <= Len(hl.propsContent)
  /\ hl.pos <= Len(hl.propsContent)

\* the loop has ended after stepping over a character that starts no name
\* and decorating a property behind it
C28_Witness ==
  /\ hl.started
  /\ ~hl.running
  /\ hl.iterations >= 2
  /\ hl.pos = Len(hl.propsContent)
  /\ hl.propsContent[1] = 33
  /\ \E i \in 1..Len(hl.manager.decorations) : hl.manager.decorations[i].decoration = "booleanProp"

LastCall == Len(rd.calls)

\* C29 (as stated): when render() was invoked while an earlier invocation
\* was suspended and all invocations have completed, the root holds exactly
\* the button container and the content container of the latest invocation.
C29_RootHoldsLatestContainers ==
  (rd.overlapped /\ Suspended(rd) = {})
    => rd.root = <<Node(LastCall, "ginko-tab-buttons"), Node(LastCall, "ginko-tab-contents")>>

\* C29 (amended): at every moment after a render() invocation the root holds
\* exactly what the latest invocation put there, its two containers or its
\* placeholder; no completion of an invocation changes the root.
C29_RootHoldsLatestChildren ==
  LastCall > 0 =>
    \/ rd.root = <<Node(LastCall, "ginko-tab-buttons"), Node(LastCall, "ginko-tab-contents")>>
    \/ /\ rd.root = <<Node(LastCall, "tabs-placeholder")>>
       /\ getStructuredTabs(rd.elements) = <<>>

\* an earlier invocation completed after a later one had started; nothing
\* is suspended any more
C29_Witness ==
  /\ rd.overlapped
  /\ Suspended(rd) = {}
  /\ \E c \in 1..(LastCall - 1) : rd.calls[c].panel = "rendered" /\ \E i \in 1..Len(rd.calls[c].buttons) : rd.calls[c].buttons[i].icon = "added"
  /\ rd.calls[LastCall].panel = "rendered"

\* C30: once every Markdown render of the preview has completed, the i-th
\* content element in DOM order holds the content of the i-th tab.
C30_ContentsInTabOrder ==
  (pv.created /\ pv.rendering = {})
    => \A k \in 1..Len(pv.tabContents) : pv.tabContents[k].tab = k - 1

\* C31: two distinct regions rendered by the same decoration pass never
\* carry the same widget instance.
C31_InstancesAreDistinctInPass ==
  passRan =>
    \A k \in 1..Len(decos), j \in 1..Len(decos) :
      k # j => decos[k].widget.inst # decos[j].widget.inst

\* C32: parseContent returns at the first end line at which as many end
\* lines as start lines (of any block type) have been read since the scan
\* start, and never earlier; its nesting counter always equals the depth of
\* its stack.  What the loop returns is what parseContent returns.
C32_ReturnsAtFirstBalance ==
  /\ pl.nestingLevel = Len(pl.stack)
  /\ ~pl.passedBalance
  /\ (pl.done /\ pl.result.found) =>
       /\ pl.ends = pl.starts
       /\ Trim(pl.lines[pl.i]) = EndLine
       /\ pl.result.endPos = pl.currentPos + Len(pl.lines[pl.i])
  /\ (pl.called /\ ~pl.done) => pl.ends < pl.starts \/ pl.i = 1
  /\ pl.done => pl.result = parseContent(pl.text, pl.startPos)

\* a region returned at its second end line: a block of another type was
\* opened and closed inside it, and text follows the region
C32_Witness ==
  /\ pl.done
  /\ pl.result.found
  /\ pl.ends = 2
  /\ pl.i < Len(pl.lines)
  /\ \E k \in 1..pl.i : pl.lines[k] = NoteLine

\* C33: the edit-state field holds an id exactly when the most recent toggle
\* of this extension for that id carried true, and every entry is true.
C33_EditStateFollowsLatestToggle ==
  /\ \A id \in EditIds : id \in DOMAIN ef.value <=> ef.latest[id] = "true"
  /\ \A id \in DOMAIN ef.value : ef.value[id] = TRUE

\* the last transaction carried an effect of another type for an id the
\* field holds, which stays, and then a toggle with false for the other id,
\* which the field does not hold
C33_Witness ==
  /\ ef.transactions >= 2
  /\ Len(ef.effects) = 2
  /\ \E id \in EditIds, other \in EditIds :
       /\ id # other
       /\ ef.effects[1] = [type |-> "other", id |-> other, value |-> FALSE]
       /\ ef.effects[2] = [type |-> "own", id |-> id, value |-> FALSE]
       /\ other \in DOMAIN ef.value
       /\ id \notin DOMAIN ef.value
       /\ ef.latest[id] = "false"

\* C34: a transaction with no document change, no effect and no selection,
\* and any transaction processed while live preview is disabled, returns
\* the previous decoration set: no pass runs and no widget is constructed.
C34_UnqualifiedTransactionKeepsDecorations ==
  [][(EmptyTx \/ (txCount' = txCount + 1 /\ ~livePreview'))
       => (decos' = decos /\ nextInst' = nextInst /\ ~passRan' /\ pass' = pass)]_vars

\* live preview is disabled, the document was edited after the last pass,
\* and the decorations of that pass are still there
C34_Witness ==
  /\ ~livePreview
  /\ ~passRan
  /\ decos # <<>>
  /\ decos = pass.decos
  /\ docText # pass.docText

\* the store held nothing readable as a tab index of the widget when the
\* constructor ran: nothing, a failing read, no number, or a number outside
\* 0..tabs-1
OutOfRangeFound ==
  \/ aw.getFailed
  \/ ~aw.found.present
  \/ \E c \in StoredCases : c.text = aw.found.text /\ (c.nan \/ c.n < 0 \/ c.n >= aw.tabs)

\* C35: a constructed TabWidget with at least one tab has
\* 0 <= activeTab < number of tabs, after construction and after clicks;
\* a constructor that finds an out-of-range value leaves activeTab 0.
C35_ActiveTabInRange ==
  aw.constructed =>
    /\ 0 <= aw.activeTab
    /\ aw.activeTab < aw.tabs
    /\ (aw.clicks = 0 /\ OutOfRangeFound) => aw.activeTab = 0

\* a widget of two tabs constructed over the stored text "7", clicked to
\* tab 1
C35_Witness ==
  /\ aw.constructed
  /\ aw.tabs = 2
  /\ aw.found = [present |-> TRUE, text |-> <<55>>]
  /\ aw.clicks = 1
  /\ aw.activeTab = 1
  /\ aw.item = [present |-> TRUE, text |-> <<49>>]

\* the innermost tabs block among the open blocks of every type
RECURSIVE InnermostTabs(_)
InnermostTabs(openBlocks) ==
  IF openBlocks = <<>> THEN NoStartTag
  ELSE IF openBlocks[Len(openBlocks)].isStart THEN openBlocks[Len(openBlocks)]
  ELSE InnermostTabs(SubSeq(openBlocks, 1, Len(openBlocks) - 1))

\* C38: findNearestTabsStartTagAbove returns the innermost ::tabs start tag
\* that is still open at the element's line, a `::` line closing the block
\* of any type that was opened last; it returns null when no tabs block is
\* open
C38_NearestIsInnermostOpenTabs ==
  nr.done => nearestResult(nr) = InnermostTabs(nr.openBlocks)

\* the same on lines that open no block other than tabs blocks
NearestAmongTabsOnly ==
  nr.done /\ (\A k \in 1..Len(nr.linesAbove) : nr.linesAbove[k] # NoteLine) => nearestResult(nr) = InnermostTabs(nr.openBlocks)

\* a step in which process() took the branch of an id bound to another root
ConflictStep == fm'.calls = fm.calls + 1 /\ fm'.last.branch = "conflict"

\* C36: processing a ::tabs start element whose id has a manager with
\* another root leaves the registry and every manager as they are (root,
\* properties and elements), creates no manager, changes no other element,
\* and the new element shows only the conflict error
C36_ConflictLeavesRegistry ==
  [][ConflictStep =>
       /\ fm'.tabsBlocks = fm.tabsBlocks
       /\ fm'.managers = fm.managers
       /\ \A e \in 1..Len(fm.dom) : e # fm'.last.el => fm'.dom[e] = fm.dom[e]
       /\ fm'.dom[fm'.last.el].children = <<"tabs-error">>]_vars

\* a conflict has just been shown for an id whose manager holds elements
C36_Witness ==
  /\ fm.last.branch = "conflict"
  /\ fm.dom[fm.last.el].tabsId \in DOMAIN fm.tabsBlocks
  /\ fm.managers[fm.tabsBlocks[fm.dom[fm.last.el].tabsId]].elements # <<>>
  /\ fm.managers[fm.tabsBlocks[fm.dom[fm.last.el].tabsId]].rootElement # fm.last.el

\* C37: every element that was added to a manager and not removed by its
\* own id still has its place in the element list of the manager (an
\* element of its section is in the list)
C37_AddedElementsStay ==
  \A x \in fm.live :
    \E i \in 1..Len(fm.managers[x.manager].elements) :
      fm.managers[x.manager].elements[i].position = x.position

====
